---- MODULE Spec2Model ----
(***************************************************************************)
(* Model of chatbet_base_models/message_template.py: the callback-contract *)
(* engine (require_callbacks, _collect_callbacks, extract) and the message *)
(* groups that use it.                                                     *)
(*                                                                         *)
(* Python values are tagged records: None, Str(s) for a str, Dict-shaped   *)
(* messages and MessageItem instances.  Python strings are TLA+ strings    *)
(* (Len, SubSeq and \o apply to them).  A call either returns a value,     *)
(* Ok(v), or raises, Err(kind).                                            *)
(***************************************************************************)
EXTENDS Integers, Sequences, FiniteSets, TLC

VARIABLES op, args, obj, result, now, templates, heap, instances, button, config,
          calls

\* The objects that live between calls, besides the templates: the tables of
\* general errors by reference, the ErrorMessages instances, a button, a
\* promotions configuration.
objects == <<heap, instances, button, config, calls>>

vars == <<op, args, obj, result, now, templates, heap, instances, button, config,
          calls>>

(* ------------------------------------------------------------------ *)
(* Bounds                                                             *)
(* ------------------------------------------------------------------ *)

\* Most buttons a generated keyboard holds (over all of its rows), and most rows.
MaxButtons == 2

\* Most needles a generated needle list holds.
MaxNeedles == 2

\* The last reading of the clock.
MaxTime == 2

\* Most ErrorMessages instances alive at once, and most texts appended to a table.
MaxInstances == 2

MaxAppends == 1

(* ------------------------------------------------------------------ *)
(* Python values                                                      *)
(* ------------------------------------------------------------------ *)

None == [type |-> "NoneType"]

Str(s) == [type |-> "str", value |-> s]

IsStr(v) == v.type = "str"

\* Python truthiness of an Optional[str]: None and "" are falsy.
Truthy(v) == IsStr(v) /\ v.value # ""

\* A list and a datetime, as values of a dumped model.
List(items) == [type |-> "list", items |-> items]

Datetime(t) == [type |-> "datetime", value |-> t]

Ok(v) == [ok |-> TRUE, value |-> v]

Err(kind) == [ok |-> FALSE, error |-> kind]

(* ------------------------------------------------------------------ *)
(* str methods                                                        *)
(* ------------------------------------------------------------------ *)

StartsWith(s, p) == Len(p) <= Len(s) /\ SubSeq(s, 1, Len(p)) = p

EndsWith(s, p) == Len(p) <= Len(s) /\ SubSeq(s, Len(s) - Len(p) + 1, Len(s)) = p

\* p in s
Contains(s, p) ==
    \E i \in 1..(Len(s) - Len(p) + 1) : SubSeq(s, i, i + Len(p) - 1) = p

LowerChar(c) ==
    CASE c = "A" -> "a" [] c = "B" -> "b" [] c = "C" -> "c" [] c = "D" -> "d"
      [] c = "E" -> "e" [] c = "F" -> "f" [] c = "G" -> "g" [] c = "H" -> "h"
      [] c = "I" -> "i" [] c = "J" -> "j" [] c = "K" -> "k" [] c = "L" -> "l"
      [] c = "M" -> "m" [] c = "N" -> "n" [] c = "O" -> "o" [] c = "P" -> "p"
      [] c = "Q" -> "q" [] c = "R" -> "r" [] c = "S" -> "s" [] c = "T" -> "t"
      [] c = "U" -> "u" [] c = "V" -> "v" [] c = "W" -> "w" [] c = "X" -> "x"
      [] c = "Y" -> "y" [] c = "Z" -> "z" [] OTHER -> c

RECURSIVE Lower(_)
Lower(s) ==
    IF Len(s) = 0 THEN ""
    ELSE LowerChar(SubSeq(s, 1, 1)) \o Lower(SubSeq(s, 2, Len(s)))

(* ------------------------------------------------------------------ *)
(* InlineKeyboardButton, InlineKeyboardMarkup, MessageItem            *)
(* ------------------------------------------------------------------ *)

\* callback_data must be <= 64 characters
MaxCallbackLen == 64

\* The after-validator of a button: which error it raises, or "ok".
_only_one_action(btn) ==
    LET cd == btn.callback_data
        url == btn.url
    IN  IF Truthy(cd) /\ Truthy(url) THEN "both"
        ELSE IF ~Truthy(cd) /\ ~Truthy(url) THEN "neither"
        ELSE IF Truthy(cd) /\ Len(cd.value) > MaxCallbackLen THEN "too_long"
        ELSE "ok"

\* Field(min_length=1) on text, then the after-validator.
InlineKeyboardButton(btn) ==
    IF Len(btn.text) < 1 THEN Err("InvalidButton")
    ELSE IF _only_one_action(btn) # "ok" THEN Err("InvalidButton")
    ELSE Ok(btn)

\* The callback_data values the generated buttons carry.
CallbackData == {None, Str(""), Str("bet"), Str("bet_simple")}

Urls == {None, Str("https://example.com")}

RawButtons ==
    [text : {"Go"}, callback_data : CallbackData, url : Urls]

\* The buttons that can be constructed.
Buttons == {b \in RawButtons : InlineKeyboardButton(b).ok}

SeqsUpTo(S, n) == UNION {[1..k -> S] : k \in 0..n}

RECURSIVE SetToSeq(_)
\* The elements of a finite set, as a list in some order.
SetToSeq(S) ==
    IF S = {} THEN <<>>
    ELSE LET x == CHOOSE y \in S : TRUE IN <<x>> \o SetToSeq(S \ {x})

RECURSIVE TotalButtons(_)
TotalButtons(kb) ==
    IF Len(kb) = 0 THEN 0 ELSE Len(Head(kb)) + TotalButtons(Tail(kb))

\* inline_keyboard: List[List[InlineKeyboardButton]]
Keyboards ==
    {kb \in SeqsUpTo(SeqsUpTo(Buttons, MaxButtons), MaxButtons) :
        TotalButtons(kb) <= MaxButtons}

InlineKeyboardMarkup(kb) == [inline_keyboard |-> kb]

MessageItem(text, markup) ==
    [type |-> "MessageItem", text |-> text, reply_markup |-> markup]

\* The messages the engine is applied to.
Messages ==
    {MessageItem(Str("Hello"), m) :
        m \in {None} \cup {InlineKeyboardMarkup(kb) : kb \in Keyboards}}

(* ------------------------------------------------------------------ *)
(* The callback-contract engine                                       *)
(* ------------------------------------------------------------------ *)

MatchModes == {"exact", "substring", "prefix", "suffix", "regex"}

Modes == {"all", "any"}

\* _normalize that leaves the letter case as it is.
_normalize_keeping_case(s, case_sensitive) == s

_normalize(s, case_sensitive) == IF case_sensitive THEN s ELSE Lower(s)

RECURSIVE Flatten(_)
\* The buttons of a keyboard in row-major order.
Flatten(kb) == IF Len(kb) = 0 THEN <<>> ELSE Head(kb) \o Flatten(Tail(kb))

RECURSIVE CollectStr(_)
\* out.append(cd) for every button whose callback_data is a str.
CollectStr(btns) ==
    IF Len(btns) = 0 THEN <<>>
    ELSE (IF IsStr(Head(btns).callback_data)
          THEN <<Head(btns).callback_data.value>> ELSE <<>>)
         \o CollectStr(Tail(btns))

\* getattr(msg, "reply_markup", None): None for a msg that is None.
_collect_callbacks(msg) ==
    LET kb == IF msg = None THEN None ELSE msg.reply_markup
    IN  IF kb = None \/ Len(kb.inline_keyboard) = 0 THEN <<>>
        ELSE CollectStr(Flatten(kb.inline_keyboard))

Range(s) == {s[i] : i \in 1..Len(s)}

\* re.compile(needle).search(cd), for the patterns of the model, which hold no
\* regex metacharacter: a literal pattern matches where it occurs.
ReSearch(needle, cd) == Contains(cd, needle)

\* any_match with "exact" compared by startswith.
any_match_exact_by_prefix(needle, callbacks_norm, match_mode) ==
    CASE match_mode \in {"exact", "prefix"} ->
            \E cd \in Range(callbacks_norm) : StartsWith(cd, needle)
      [] match_mode \in {"substring", "regex"} ->
            \E cd \in Range(callbacks_norm) : Contains(cd, needle)
      [] match_mode = "suffix" ->
            \E cd \in Range(callbacks_norm) : EndsWith(cd, needle)

\* any_match with the tests of "prefix" and "suffix" exchanged.
any_match_prefix_suffix_swapped(needle, callbacks_norm, match_mode) ==
    CASE match_mode = "exact" -> \E cd \in Range(callbacks_norm) : cd = needle
      [] match_mode \in {"substring", "regex"} ->
            \E cd \in Range(callbacks_norm) : Contains(cd, needle)
      [] match_mode = "prefix" ->
            \E cd \in Range(callbacks_norm) : EndsWith(cd, needle)
      [] match_mode = "suffix" ->
            \E cd \in Range(callbacks_norm) : StartsWith(cd, needle)

any_match(needle, callbacks_norm, match_mode) ==
    CASE match_mode = "exact" -> \E cd \in Range(callbacks_norm) : cd = needle
      [] match_mode = "substring" ->
            \E cd \in Range(callbacks_norm) : Contains(cd, needle)
      [] match_mode = "prefix" ->
            \E cd \in Range(callbacks_norm) : StartsWith(cd, needle)
      [] match_mode = "suffix" ->
            \E cd \in Range(callbacks_norm) : EndsWith(cd, needle)
      [] match_mode = "regex" ->
            \E cd \in Range(callbacks_norm) : ReSearch(needle, cd)

\* combine_needles with the combinator ignored: every needle must match.
combine_needles_always_all(needles_norm, callbacks_norm, mode, match_mode) ==
    \A i \in 1..Len(needles_norm) :
        any_match(needles_norm[i], callbacks_norm, match_mode)

\* ok = all(any_match(n) ...) if mode == "all" else any(any_match(n) ...)
combine_needles(needles_norm, callbacks_norm, mode, match_mode) ==
    IF mode = "all"
    THEN \A i \in 1..Len(needles_norm) :
            any_match(needles_norm[i], callbacks_norm, match_mode)
    ELSE \E i \in 1..Len(needles_norm) :
            any_match(needles_norm[i], callbacks_norm, match_mode)

\* require_callbacks after its guard for None.
check_callbacks(msg, needles, mode, match_mode, case_sensitive) ==
    LET callbacks == _collect_callbacks(msg)
        callbacks_norm ==
            [i \in 1..Len(callbacks) |-> _normalize(callbacks[i], case_sensitive)]
        needles_norm ==
            [i \in 1..Len(needles) |-> _normalize(needles[i], case_sensitive)]
    IN  IF Len(callbacks) = 0 THEN Err("MissingKeyboard")
        ELSE IF ~combine_needles(needles_norm, callbacks_norm, mode, match_mode)
             THEN Err("UnsatisfiedCallbackContract")
        ELSE Ok(msg)

\* require_callbacks without its guard for None.
require_callbacks_no_none_guard(msg, needles, mode, match_mode, case_sensitive) ==
    check_callbacks(msg, needles, mode, match_mode, case_sensitive)

\* msg is None or a MessageItem; needles is a sequence of strings.
require_callbacks(msg, needles, mode, match_mode, case_sensitive) ==
    IF msg = None THEN Ok(msg)
    ELSE check_callbacks(msg, needles, mode, match_mode, case_sensitive)

\* extract that reads the first row of the keyboard only.
extract_first_row(item) ==
    IF item = None \/ item.reply_markup = None THEN {}
    ELSE IF Len(item.reply_markup.inline_keyboard) = 0 THEN {}
    ELSE {b.callback_data.value :
            b \in {x \in Range(Head(item.reply_markup.inline_keyboard)) :
                      Truthy(x.callback_data)}}

extract(item) ==
    IF item = None \/ item.reply_markup = None THEN {}
    ELSE {b.callback_data.value :
            b \in {x \in Range(Flatten(item.reply_markup.inline_keyboard)) :
                      Truthy(x.callback_data)}}

(* ------------------------------------------------------------------ *)
(* Mappings (dict) and the validation of a message field              *)
(* ------------------------------------------------------------------ *)

\* A dict-shaped message: items maps the keys it holds to their values.
Dict(items) == [type |-> "dict", items |-> items]

\* d[k] = v
DictSet(d, k, v) == [x \in DOMAIN d \cup {k} |-> IF x = k THEN v ELSE d[x]]

\* d without key k (the value d.pop(k) returns is d[k])
DictPop(d, k) == [x \in DOMAIN d \ {k} |-> d[x]]

\* d.get(k), None when absent
DictGet(d, k) == IF k \in DOMAIN d THEN d[k] ELSE None

RECURSIVE Replace(_, _, _)
\* s.replace(old, new): every occurrence, left to right.
Replace(s, old, new) ==
    IF Len(s) < Len(old) \/ Len(s) = 0 THEN s
    ELSE IF StartsWith(s, old)
         THEN new \o Replace(SubSeq(s, Len(old) + 1, Len(s)), old, new)
    ELSE SubSeq(s, 1, 1) \o Replace(SubSeq(s, 2, Len(s)), old, new)

\* _coerce that wraps None as it wraps a str.
_coerce_wrapping_none(v) ==
    IF IsStr(v) \/ v = None THEN Dict([text |-> v]) ELSE v

\* MessageItem._coerce
_coerce(v) ==
    IF v = None \/ v.type = "dict" \/ v.type = "MessageItem" THEN v
    ELSE IF IsStr(v) THEN Dict([text |-> v])
    ELSE v

MessageItemFields == {"text", "additional_message", "reply_markup"}

\* Validation of a value given for a field of type Optional[MessageItem]: None and
\* instances pass as they are, a mapping is validated into a MessageItem (extra
\* keys forbidden, every button validated), anything else is a type error.
ValidateMessageItem(v) ==
    IF v = None \/ v.type = "MessageItem" THEN Ok(v)
    ELSE IF v.type # "dict" THEN Err("model_type")
    ELSE IF ~(DOMAIN v.items \subseteq MessageItemFields) THEN Err("extra_forbidden")
    ELSE LET markup == DictGet(v.items, "reply_markup")
             bad == IF markup = None THEN {}
                    ELSE {b \in Range(Flatten(markup.inline_keyboard)) :
                            ~InlineKeyboardButton(b).ok}
         IN  IF bad # {} THEN Err("InvalidButton")
             ELSE Ok(MessageItem(DictGet(v.items, "text"), markup))

(* ------------------------------------------------------------------ *)
(* Message groups                                                     *)
(* ------------------------------------------------------------------ *)

\* The groups that carry callback contracts.
Groups ==
    {"OnboardingMessages", "ValidationMessages", "MenuMessages", "BetsMessages",
     "CombosMessages", "ConfirmationMessages"}

Fields(cls) ==
    CASE cls = "OnboardingMessages" -> {"member_onboarding", "greeting_message"}
      [] cls = "ValidationMessages" ->
            {"member_validation", "member_validation_phone",
             "member_validation_email", "send_otp", "bad_otp", "error_otp",
             "blocked_otp", "blocked_user"}
      [] cls = "MenuMessages" ->
            {"main_menu", "support", "withdrawal", "balance", "results",
             "deposit", "show_links"}
      [] cls = "BetsMessages" ->
            {"special_bet", "select_sport", "select_tournament", "select_fixture",
             "bet_amount", "invalid_bet_amount", "fixture_odds",
             "special_bets_odds", "unavailable_odds", "placed_bet",
             "placed_bet_menu", "without_funds", "deposit", "bet_rejected",
             "select_type_of_bet", "closed_fixture"}
      [] cls = "CombosMessages" ->
            {"show_all_markets_by_fixtures", "error_to_add_market",
             "error_to_get_odds", "error_to_place_bet", "empty_combo",
             "summary_after_add_market", "summary_after_remove_bet_from_combo",
             "remove_market", "select_amount", "place_combo_bet",
             "summary_after_bet", "show_my_combo", "delete_combo", "combo_odds",
             "combos_recommendation", "combos_confirm_add_recommended",
             "delete_bet_from_combo", "replace_bet_from_combo"}
      [] cls = "ConfirmationMessages" -> {"confirm_bet"}
      [] cls = "ErrorMessages" ->
            {"invalid_input", "error", "error_2", "error_unavailable_bot"}
      [] cls = "RegistrationMessages" ->
            {"not_registered_user", "not_registered_user_country"}
      [] cls = "LabelMessages" ->
            {"menu_label_text", "label_text",
             "combo_summary_after_add_market_label_text",
             "select_tournament_label_text", "select_fixture_label_text",
             "markets_without_combo_label_text", "select_sport_label_text",
             "more_options_text", "combo_remove_market_label_text",
             "selected_other_market_label_text", "other_markets_label_text",
             "combo_odds_label_text", "fixture_odds_label_text",
             "menu_more_options_text", "list_markets_label_text",
             "list_fixtures_label_text"}
      [] cls = "EndMessages" -> {"end_conversation"}
      [] cls = "GuidanceMessages" ->
            {"valid_input_text", "invalid_input_text", "invalid_input_response"}

\* The default of a field that is not given.
FieldDefault(cls, f) ==
    IF cls = "CombosMessages" /\ f = "empty_combo"
    THEN MessageItem(Str("Sorry, there isn't any combo yet"), None)
    ELSE None

\* "<field> missing callbacks: [...]" raised by a group's after-validator.
MissingCallbacks(field) == Err({<<field, "missing_callbacks">>})

\* The first field of fields whose populated message lacks a callback of need.
RECURSIVE CheckEach(_, _, _)
CheckEach(self, fields, need) ==
    IF Len(fields) = 0 THEN Ok(self)
    ELSE LET field == Head(fields)
             item == self[field]
         IN  IF item # None /\ need[field] \ extract(item) # {}
             THEN MissingCallbacks(field)
             ELSE CheckEach(self, Tail(fields), need)

\* ---- OnboardingMessages

Onboarding_member_rules(v) ==
    require_callbacks(v, <<"account_yes", "account_no">>, "all", "exact", TRUE)

\* No guard for None: extract(None) is the empty set.
Onboarding_require_callbacks(self) ==
    LET need == {"account_yes", "account_no"}
        got == extract(self["member_onboarding"])
    IN  IF need \ got # {} THEN MissingCallbacks("member_onboarding") ELSE Ok(self)

\* ---- ValidationMessages

Validation_send_otp_rules(v) ==
    require_callbacks(v, <<"send_otp">>, "all", "exact", TRUE)

Validation_bad_otp_rules(v) ==
    require_callbacks(v, <<"send_otp">>, "all", "exact", TRUE)

Validation_error_otp_rules(v) ==
    require_callbacks(v, <<"send_otp">>, "all", "exact", TRUE)

Validation_require_callbacks(self) ==
    CheckEach(self, <<"send_otp", "bad_otp", "error_otp">>,
              [f \in {"send_otp", "bad_otp", "error_otp"} |-> {"send_otp"}])

\* ---- MenuMessages

Menu_main_menu_rules(v) == require_callbacks(v, <<"bet">>, "all", "exact", TRUE)

Menu_require_callbacks(self) ==
    CheckEach(self, <<"main_menu">>, [f \in {"main_menu"} |-> {"bet"}])

\* ---- BetsMessages

Bets_type_of_bet_rules(v) ==
    require_callbacks(v, <<"bet_simple&{FIXTURE_ID}", "add_market_to_combo&{FIXTURE_ID}">>,
                      "all", "exact", TRUE)

Bets_require_callbacks(self) ==
    CheckEach(self, <<"select_type_of_bet">>,
              [f \in {"select_type_of_bet"} |->
                  {"bet_simple&{FIXTURE_ID}", "add_market_to_combo&{FIXTURE_ID}"}])

\* ---- CombosMessages

Combos_combos_recommendation_rules(v) ==
    require_callbacks(v, <<"combo_select_amount_recommended">>, "all", "exact", TRUE)

Combos_delete_combo_rules(v) ==
    require_callbacks(v, <<"combo_confirm_delete_combo">>, "all", "exact", TRUE)

Combos_place_combo_bet_rules(v) ==
    require_callbacks(v, <<"combo_summary_after_bet">>, "all", "exact", TRUE)

Combos_require_callbacks(self) ==
    CheckEach(self, <<"combos_recommendation", "delete_combo", "place_combo_bet">>,
              [combos_recommendation |-> {"combo_select_amount_recommended"},
               delete_combo |-> {"combo_confirm_delete_combo"},
               place_combo_bet |-> {"combo_summary_after_bet"}])

\* ---- ConfirmationMessages

Confirmation_confirm_bet_rules(v) ==
    require_callbacks(v, <<"confirm_bet">>, "all", "exact", TRUE)

Confirmation_require_callbacks(self) ==
    CheckEach(self, <<"confirm_bet">>, [f \in {"confirm_bet"} |-> {"confirm_bet"}])

\* ---- the validators of a class

\* @field_validator(f) of cls, applied to the validated value of a given field.
FieldValidator(cls, f, v) ==
    CASE cls = "OnboardingMessages" /\ f = "member_onboarding" ->
            Onboarding_member_rules(v)
      [] cls = "ValidationMessages" /\ f = "send_otp" -> Validation_send_otp_rules(v)
      [] cls = "ValidationMessages" /\ f = "bad_otp" -> Validation_bad_otp_rules(v)
      [] cls = "ValidationMessages" /\ f = "error_otp" ->
            Validation_error_otp_rules(v)
      [] cls = "MenuMessages" /\ f = "main_menu" -> Menu_main_menu_rules(v)
      [] cls = "BetsMessages" /\ f = "select_type_of_bet" ->
            Bets_type_of_bet_rules(v)
      [] cls = "CombosMessages" /\ f = "combos_recommendation" ->
            Combos_combos_recommendation_rules(v)
      [] cls = "CombosMessages" /\ f = "delete_combo" -> Combos_delete_combo_rules(v)
      [] cls = "CombosMessages" /\ f = "place_combo_bet" ->
            Combos_place_combo_bet_rules(v)
      [] cls = "ConfirmationMessages" /\ f = "confirm_bet" ->
            Confirmation_confirm_bet_rules(v)
      [] OTHER -> Ok(v)

\* @model_validator(mode="after") of cls.
ModelValidator(cls, self) ==
    CASE cls = "OnboardingMessages" -> Onboarding_require_callbacks(self)
      [] cls = "ValidationMessages" -> Validation_require_callbacks(self)
      [] cls = "MenuMessages" -> Menu_require_callbacks(self)
      [] cls = "BetsMessages" -> Bets_require_callbacks(self)
      [] cls = "CombosMessages" -> Combos_require_callbacks(self)
      [] cls = "ConfirmationMessages" -> Confirmation_require_callbacks(self)
      [] cls \in {"ErrorMessages", "RegistrationMessages", "LabelMessages",
                  "EndMessages", "GuidanceMessages"} -> Ok(self)

\* cls(**data), and BaseModel.model_validate(data): with extra="forbid" a key that
\* is no field is an error; each given field is validated and then passed to its
\* field validator; a field not given takes its default, unvalidated; the
\* after-validator runs when no field failed.
BaseModel(cls, data) ==
    LET given == DOMAIN data \cap Fields(cls)
        check(f, parsed) ==
            IF parsed.ok THEN FieldValidator(cls, f, parsed.value) ELSE parsed
        errors(checked) ==
            {<<k, "extra_forbidden">> : k \in DOMAIN data \ Fields(cls)}
            \cup {<<f, checked[f].error>> : f \in {g \in given : ~checked[g].ok}}
        self(checked) ==
            [f \in Fields(cls) |->
                IF f \in given THEN checked[f].value ELSE FieldDefault(cls, f)]
        After(checked) ==
            IF errors(checked) # {} THEN Err(errors(checked))
            ELSE ModelValidator(cls, self(checked))
    IN  After([f \in given |-> check(f, ValidateMessageItem(data[f]))])

\* obj = {k: MessageItem._coerce(v) for k, v in obj.items()}
CoerceAll(o) == [k \in DOMAIN o |-> _coerce(o[k])]

\* A model_validate override returns the caller's mapping as the call leaves it,
\* and the outcome.
Validated(cls, o, data) == [obj |-> o, result |-> BaseModel(cls, data)]

\* The override of the groups that only coerce: the caller's mapping is read.
Coercing_model_validate(cls, o) == Validated(cls, o, CoerceAll(o))

\* if legacy in obj and canonical not in obj: obj[canonical] = obj.pop(legacy)
Alias(o, legacy, canonical) ==
    IF legacy \in DOMAIN o /\ canonical \notin DOMAIN o
    THEN DictSet(DictPop(o, legacy), canonical, o[legacy])
    ELSE o

Menu_model_validate(o) ==
    LET o1 == Alias(o, "support_message", "support")
        o2 == Alias(o1, "withdrawal_message", "withdrawal")
        o3 == Alias(o2, "deposit_message", "deposit")
        o4 == Alias(o3, "show_links_message", "show_links")
    IN  Validated("MenuMessages", o4, CoerceAll(o4))

RECURSIVE FixSumary(_, _)
\* for k in list(obj.keys()): a key that starts with "sumary_" is re-keyed, with
\* no test for the corrected key.
FixSumary(o, keys) ==
    IF Len(keys) = 0 THEN o
    ELSE LET k == Head(keys)
             o1 == IF StartsWith(k, "sumary_") /\ ~StartsWith(k, "summary_")
                   THEN DictSet(DictPop(o, k), Replace(k, "sumary_", "summary_"), o[k])
                   ELSE o
         IN  FixSumary(o1, Tail(keys))

DefaultCombosRecommendation ==
    Dict([text |-> Str("Recommended combos"),
          reply_markup |->
              [inline_keyboard |->
                  <<<<[text |-> "Select Amount",
                       callback_data |-> Str("combo_select_amount_recommended"),
                       url |-> None]>>>>]])

DefaultCombosConfirmAddRecommended ==
    Dict([text |-> Str("Do you want to add these recommended combos?")])

\* if key not in obj or obj.get(key) is None: obj[key] = default
EnsureDefault(o, key, default) ==
    IF key \notin DOMAIN o \/ DictGet(o, key) = None THEN DictSet(o, key, default)
    ELSE o

Combos_model_validate(o) ==
    LET o1 == Alias(o, "errro_to_place_bet", "error_to_place_bet")
        o2 == FixSumary(o1, SetToSeq(DOMAIN o1))
        o3 == EnsureDefault(o2, "combos_recommendation", DefaultCombosRecommendation)
        o4 == EnsureDefault(o3, "combos_confirm_add_recommended",
                            DefaultCombosConfirmAddRecommended)
    IN  Validated("CombosMessages", o4, CoerceAll(o4))

\* cls.model_validate(obj)
ModelValidate(cls, o) ==
    CASE cls = "MenuMessages" -> Menu_model_validate(o)
      [] cls = "CombosMessages" -> Combos_model_validate(o)
      [] OTHER -> Coercing_model_validate(cls, o)

\* ---- ErrorMessages

\* The table of fallback error texts per language, and a table a payload gives
\* (texts in ASCII)
DEFAULT_GENERAL_ERRORS ==
    Dict(
        ("es" :>
            List(<<
                Str("Uff! Me mandaste una pelota curva y no la pude atrapar Me puedes repetir lo que quieres hacer?"),
                Str("Ay! Me hiciste un jaque mate y qued confundido Me puedes repetir lo que quieres hacer?"),
                Str("Oops! Fall el penalty y se me fue la pelota Me puedes repetir lo que quieres hacer?"),
                Str("Ups! Me sacaste una tarjeta roja por no entender Me puedes repetir lo que quieres hacer?"),
                Str("Auch! Me noqueaste con esa pregunta Me puedes repetir lo que quieres hacer?"),
                Str("Rayos! Hice strike pero en los bolos equivocados Me puedes repetir lo que quieres hacer?"),
                Str("Ouch! Met la pelota en mi propia canasta Me puedes repetir lo que quieres hacer?"),
                Str("Gol en contra! Me puedes repetir lo que quieres hacer?"),
                Str("Fuera de juego! Me puedes repetir lo que quieres hacer?"),
                Str("Pelotazo! Me puedes repetir lo que quieres hacer?")
            >>))
        @@
        ("en" :>
            List(<<
                Str("Oops! You threw me a curveball and I struck out Can you repeat what you want to do?"),
                Str("Whoops! I fumbled the ball on that one Can you repeat what you want to do?"),
                Str("Uh oh! You served an ace and I completely whiffed Can you repeat what you want to do?"),
                Str("Ouch! I got tackled by that question Can you repeat what you want to do?"),
                Str("Yikes! I missed the goal completely Can you repeat what you want to do?"),
                Str("Bummer! I struck out swinging on that one Can you repeat what you want to do?"),
                Str("Darn! I went offside and got confused Can you repeat what you want to do?"),
                Str("Total whiff! Can you repeat what you want to do?"),
                Str("Fumbled it! Can you repeat what you want to do?"),
                Str("Air ball! Can you repeat what you want to do?")
            >>))
        @@
        ("pt-br" :>
            List(<<
                Str("Eita! Voc me deu um drible desconcertante e eu fiquei no ch o Pode repetir o que voc quer fazer?"),
                Str("Opa! Voc me aplicou um nocaute t cnico Pode repetir o que voc quer fazer?"),
                Str("Caramba! Fiz um gol contra sem querer Pode repetir o que voc quer fazer?"),
                Str("Poxa! Voc me deu um ace na cabe a Pode repetir o que voc quer fazer?"),
                Str("Ai! Levei uma cesta na cara e fiquei tonto Pode repetir o que voc quer fazer?"),
                Str("Ixe! Errei o alvo completamente Pode repetir o que voc quer fazer?"),
                Str("Nossa! Fiz strike nos pinos errados Pode repetir o que voc quer fazer?"),
                Str("Gol contra! Pode repetir o que voc quer fazer?"),
                Str("Falta! Pode repetir o que voc quer fazer?"),
                Str("Fora! Pode repetir o que voc quer fazer?")
            >>)))

GivenGeneralErrors ==
    Dict(("en" :> List(<<Str("Custom error 1"), Str("Custom error 2")>>))
         @@ ("fr" :> List(<<Str("Erreur")>>)))

\* @model_validator(mode="before"): general_errors is set aside, every other
\* value is coerced, general_errors is put back unless it is None.
Errors_coerce_message_items(o) ==
    LET general_errors == DictGet(o, "general_errors")
        popped == IF "general_errors" \in DOMAIN o THEN DictPop(o, "general_errors")
                  ELSE o
        coerced == CoerceAll(popped)
    IN  IF general_errors # None THEN DictSet(coerced, "general_errors", general_errors)
        ELSE coerced

\* Validation of ErrorMessages: the before-validator, then the fields;
\* general_errors takes the table given, or the default table.
Errors_validate(data) ==
    LET WithTable(o, r) ==
            IF r.ok
            THEN Ok(DictSet(r.value, "general_errors",
                            IF "general_errors" \in DOMAIN o THEN o["general_errors"]
                            ELSE DEFAULT_GENERAL_ERRORS))
            ELSE r
        Fields_of(o) ==
            WithTable(o, BaseModel("ErrorMessages",
                                   IF "general_errors" \in DOMAIN o
                                   THEN DictPop(o, "general_errors") ELSE o))
    IN  Fields_of(Errors_coerce_message_items(data))

\* Validation of a value for a field of type Optional[cls], as the aggregate and
\* the constructor run it: the before-validators of cls run, a model_validate
\* override of cls does not.
Validate(cls, data) ==
    IF cls = "ErrorMessages" THEN Errors_validate(data) ELSE BaseModel(cls, data)

\* ---- the tables of general errors as objects

\* The reference to the module-level table, and the tables that exist when the
\* module is imported.
BuiltIn == "DEFAULT_GENERAL_ERRORS"

ModuleTables == (BuiltIn :> DEFAULT_GENERAL_ERRORS)

\* default_factory=lambda: DEFAULT_GENERAL_ERRORS: the factory returns the
\* module-level table itself, and a default is neither validated nor copied.
general_errors_default == BuiltIn

\* The ways an ErrorMessages instance gets its table: none given, a table
\* given by the caller, general_errors=DEFAULT_GENERAL_ERRORS as from_minimal
\* passes it.
TableArguments == {"none", "given", "module_table"}

\* The table that is validated when one is given: validation of
\* Dict[str, List[str]] builds a new dict and new lists with the contents the
\* argument has at that time.
GivenTable(how, tables) ==
    IF how = "given" THEN GivenGeneralErrors ELSE tables[BuiltIn]

\* The reference the table of the n-th instance gets when it is its own.
OwnTable(n) == "table" \o ToString(n)

\* table[lang].append(text)
AppendText(table, lang, text) ==
    Dict([table.items EXCEPT ![lang] = List(Append(@.items, Str(text)))])

\* The texts appended to a table so far.
Appended(table) ==
    Cardinality({i \in 1..Len(table.items["en"].items) :
                    table.items["en"].items[i] = Str("appended")})

\* The mapping that was handed to _coerce_message_items, as it leaves it:
\* obj.pop("general_errors", None) acts on that mapping, and the coerced
\* mapping, which gets the table back, is a new one.
Errors_left(o) ==
    IF "general_errors" \in DOMAIN o THEN DictPop(o, "general_errors") ELSE o

\* ErrorMessages.model_validate(obj): the class has no override, and the
\* before-validator is handed the caller's mapping itself.
Errors_model_validate(o) == [obj |-> Errors_left(o), result |-> Errors_validate(o)]

(* ------------------------------------------------------------------ *)
(* Links                                                              *)
(* ------------------------------------------------------------------ *)

RECURSIVE LStrip(_)
LStrip(s) ==
    IF Len(s) > 0 /\ SubSeq(s, 1, 1) = " " THEN LStrip(SubSeq(s, 2, Len(s))) ELSE s

RECURSIVE RStrip(_)
RStrip(s) ==
    IF Len(s) > 0 /\ SubSeq(s, Len(s), Len(s)) = " "
    THEN RStrip(SubSeq(s, 1, Len(s) - 1))
    ELSE s

\* s.strip(), for blanks
Strip(s) == RStrip(LStrip(s))

\* The order of the characters that titles are made of.
Alphabet == " 0123456789abcdefghijklmnopqrstuvwxyz"

CharRank(c) == CHOOSE i \in 1..Len(Alphabet) : SubSeq(Alphabet, i, i) = c

RECURSIVE StrLess(_, _)
\* a < b, for str
StrLess(a, b) ==
    IF Len(b) = 0 THEN FALSE
    ELSE IF Len(a) = 0 THEN TRUE
    ELSE IF SubSeq(a, 1, 1) = SubSeq(b, 1, 1)
         THEN StrLess(SubSeq(a, 2, Len(a)), SubSeq(b, 2, Len(b)))
    ELSE CharRank(SubSeq(a, 1, 1)) < CharRank(SubSeq(b, 1, 1))

RECURSIVE Sorted(_)
\* sorted(S), for a set of str
Sorted(S) ==
    IF S = {} THEN <<>>
    ELSE LET least == CHOOSE x \in S : \A y \in S \ {x} : StrLess(x, y)
         IN  <<least>> \o Sorted(S \ {least})

DEFAULT_LINKS ==
    <<[title |-> "Support",
       message_text |-> "Contact our support team for assistance.",
       button_label |-> "Get Support",
       button_url |-> "https://example.com/support"],
      [title |-> "Main site",
       message_text |-> "Visit our main website for more information.",
       button_label |-> "Go to Main Site",
       button_url |-> "https://example.com"],
      [title |-> "Sign up",
       message_text |-> "Create an account to get started.",
       button_label |-> "Sign Up Now",
       button_url |-> "https://example.com/signup"],
      [title |-> "Withdrawal",
       message_text |-> "Easily withdraw your funds anytime.",
       button_label |-> "Withdraw Funds",
       button_url |-> "https://example.com/withdrawal"],
      [title |-> "Deposit",
       message_text |-> "Deposit funds securely into your account.",
       button_label |-> "Deposit Now",
       button_url |-> "https://example.com/deposit"],
      [title |-> "Bet results",
       message_text |-> "Check your latest bet results here.",
       button_label |-> "View Results",
       button_url |-> "https://example.com/bet-results"]>>

REQUIRED_LINK_TITLES ==
    {"support", "main site", "sign up", "withdrawal", "deposit", "bet results"}

\* Field(max_length=...) of LinkItem
MaxTitleLen == 200

MaxMessageTextLen == 5000

MaxButtonLabelLen == 100

MaxButtonUrlLen == 2000

\* Maximum 100 links allowed
MaxLinks == 100

\* LinkItem._validate_title
_validate_title(v) ==
    IF Strip(v) = "" THEN Err("InvalidLink") ELSE Ok(Strip(v))

\* LinkItem._validate_text_fields
_validate_text_fields(v) ==
    IF Strip(v) = "" THEN Err("InvalidLink") ELSE Ok(v)

\* LinkItem._validate_button_url
_validate_button_url(v) ==
    IF Strip(v) = "" THEN Err("InvalidLink")
    ELSE IF ~(StartsWith(Strip(v), "http://") \/ StartsWith(Strip(v), "https://"))
         THEN Err("InvalidLink")
    ELSE Ok(Strip(v))

\* LinkItem(**link): the length constraints of the fields, then their validators.
LinkItem(link) ==
    IF \/ Len(link.title) < 1 \/ Len(link.title) > MaxTitleLen
       \/ Len(link.message_text) < 1 \/ Len(link.message_text) > MaxMessageTextLen
       \/ Len(link.button_label) < 1 \/ Len(link.button_label) > MaxButtonLabelLen
       \/ Len(link.button_url) < 1 \/ Len(link.button_url) > MaxButtonUrlLen
    THEN Err("InvalidLink")
    ELSE LET title == _validate_title(link.title)
             message_text == _validate_text_fields(link.message_text)
             button_label == _validate_text_fields(link.button_label)
             button_url == _validate_button_url(link.button_url)
         IN  IF title.ok /\ message_text.ok /\ button_label.ok /\ button_url.ok
             THEN Ok([title |-> title.value, message_text |-> message_text.value,
                      button_label |-> button_label.value,
                      button_url |-> button_url.value])
             ELSE Err("InvalidLink")

\* _validate_links with the cap test written len(v) >= 100.
_validate_links_cap_inclusive(v) ==
    IF Len(v) >= MaxLinks THEN Err("TooManyLinks")
    ELSE LET titles_lower == [i \in 1..Len(v) |-> Lower(v[i].title)]
         IN  IF Len(titles_lower) # Cardinality(Range(titles_lower))
             THEN Err("DuplicateLinkTitle")
             ELSE Ok(v)

\* LinksMessages._validate_links: the cap, then the duplicate titles.
_validate_links(v) ==
    IF Len(v) > MaxLinks THEN Err("TooManyLinks")
    ELSE LET titles_lower == [i \in 1..Len(v) |-> Lower(v[i].title)]
         IN  IF Len(titles_lower) # Cardinality(Range(titles_lower))
             THEN Err("DuplicateLinkTitle")
             ELSE Ok(v)

\* _require_default_links that compares the titles as they are written.
_require_default_links_case_sensitive(links) ==
    LET current_titles == {links[i].title : i \in 1..Len(links)}
        missing_titles == REQUIRED_LINK_TITLES \ current_titles
    IN  IF missing_titles # {}
        THEN [ok |-> FALSE, error |-> "MissingRequiredLinks",
              missing |-> Sorted(missing_titles)]
        ELSE Ok(links)

\* LinksMessages._require_default_links
_require_default_links(links) ==
    LET current_titles_lower == {Lower(links[i].title) : i \in 1..Len(links)}
        missing_titles == REQUIRED_LINK_TITLES \ current_titles_lower
    IN  IF missing_titles # {}
        THEN [ok |-> FALSE, error |-> "MissingRequiredLinks",
              missing |-> Sorted(missing_titles)]
        ELSE Ok(links)

\* LinksMessages(links=links): every entry is validated, then the field
\* validator, then the after-validator.
LinksMessages(links) ==
    LET items == [i \in 1..Len(links) |-> LinkItem(links[i])]
    IN  IF \E i \in 1..Len(links) : ~items[i].ok THEN Err("InvalidLink")
        ELSE LET v == _validate_links([i \in 1..Len(links) |-> items[i].value])
             IN  IF v.ok THEN _require_default_links(v.value) ELSE v

\* LinksMessages(): the default factory; a default is not validated by the field
\* validator, the after-validator runs.
DefaultLinksMessages ==
    _require_default_links([i \in 1..Len(DEFAULT_LINKS) |->
                               LinkItem(DEFAULT_LINKS[i]).value])

(* ------------------------------------------------------------------ *)
(* MessageTemplates: the default instance                             *)
(* ------------------------------------------------------------------ *)

\* (texts in ASCII)
\* OnboardingMessages(...) of from_minimal: the keyword arguments.
from_minimal_onboarding ==
    [member_onboarding |->
        MessageItem(
            Str("Welcome to our chatbot!"),
            InlineKeyboardMarkup(<<
                <<[text |-> "Yes", callback_data |-> Str("account_yes"), url |-> None]>>,
                <<[text |-> "No", callback_data |-> Str("account_no"), url |-> None]>>
            >>)),
     greeting_message |->
        MessageItem(
            Str("Hello! How can I help you today?"),
            InlineKeyboardMarkup(<<
                <<[text |-> "Place a Bet", callback_data |-> Str("bet"), url |-> None]>>,
                <<[text |-> "More Options", callback_data |-> Str("show_links"), url |-> None]>>
            >>))]

\* ValidationMessages(...) of from_minimal: the keyword arguments.
from_minimal_validation ==
    [member_validation |->
        MessageItem(Str("Please validate your account."), None),
     member_validation_phone |->
        MessageItem(Str("Please provide your phone number."), None),
     member_validation_email |->
        MessageItem(Str("Please provide your email address."), None),
     send_otp |->
        MessageItem(
            Str("We've sent you an OTP."),
            InlineKeyboardMarkup(<<
                <<[text |-> "Resend OTP", callback_data |-> Str("send_otp"), url |-> None]>>
            >>)),
     bad_otp |->
        MessageItem(
            Str("Invalid OTP, try again."),
            InlineKeyboardMarkup(<<
                <<[text |-> "Resend OTP", callback_data |-> Str("send_otp"), url |-> None]>>
            >>)),
     error_otp |->
        MessageItem(
            Str("Error sending OTP, try again."),
            InlineKeyboardMarkup(<<
                <<[text |-> "Resend OTP", callback_data |-> Str("send_otp"), url |-> None]>>
            >>)),
     blocked_otp |->
        MessageItem(Str("Too many failed attempts. OTP blocked."), None),
     blocked_user |->
        MessageItem(Str("Sorry, I can't help you, you are blocked"), None)]

\* RegistrationMessages(...) of from_minimal: the keyword arguments.
from_minimal_registration ==
    [not_registered_user |->
        MessageItem(Str("You are not registered."), None),
     not_registered_user_country |->
        MessageItem(Str("You are in the wrong country."), None)]

\* MenuMessages(...) of from_minimal: the keyword arguments.
from_minimal_menu ==
    [main_menu |->
        MessageItem(
            Str("Main menu"),
            InlineKeyboardMarkup(<<
                <<[text |-> "Bet", callback_data |-> Str("bet"), url |-> None]>>,
                <<[text |-> "Show links", callback_data |-> Str("show_links"), url |-> None]>>
            >>)),
     support |->
        MessageItem(Str("Support options"), None),
     withdrawal |->
        MessageItem(Str("Withdrawal options"), None),
     balance |->
        MessageItem(Str("Your balance"), None),
     results |->
        MessageItem(Str("Latest results"), None),
     deposit |->
        MessageItem(Str("Deposit options"), None),
     show_links |->
        MessageItem(
            Str("Quick links"),
            InlineKeyboardMarkup(<<
                <<[text |-> "Help", callback_data |-> None, url |-> Str("https://example.com/help")]>>
            >>))]

\* BetsMessages(...) of from_minimal: the keyword arguments.
from_minimal_bets ==
    [select_sport |->
        MessageItem(Str("Select a sport"), None),
     select_tournament |->
        MessageItem(Str("Select a tournament"), None),
     select_fixture |->
        MessageItem(Str("Select a fixture"), None),
     invalid_bet_amount |->
        MessageItem(
            Str("Invalid amount, Enter your bet amount"),
            InlineKeyboardMarkup(<<
                <<[text |-> "5", callback_data |-> Str("5"), url |-> None],
                  [text |-> "10", callback_data |-> Str("10"), url |-> None]>>
            >>)),
     bet_amount |->
        MessageItem(
            Str("Enter your bet amount"),
            InlineKeyboardMarkup(<<
                <<[text |-> "5", callback_data |-> Str("5"), url |-> None],
                  [text |-> "10", callback_data |-> Str("10"), url |-> None]>>
            >>)),
     select_type_of_bet |->
        MessageItem(
            Str("Select type of bet"),
            InlineKeyboardMarkup(<<
                <<[text |-> "Simple", callback_data |-> Str("bet_simple&{FIXTURE_ID}"), url |-> None],
                  [text |-> "Combo", callback_data |-> Str("add_market_to_combo&{FIXTURE_ID}"), url |-> None]>>
            >>)),
     fixture_odds |->
        MessageItem(Str("Here are the odds for the fixture."), None),
     unavailable_odds |->
        MessageItem(Str("Some odds are unavailable."), None),
     placed_bet |->
        MessageItem(Str("Your bet has been placed successfully! Match: %1 Bet Amount: %2 Selection: %3 Potential Win: %4 Balance: %5"), None),
     placed_bet_menu |->
        MessageItem(Str("Your bet has been placed! What would you like to do next?"), None),
     without_funds |->
        MessageItem(Str("Insufficient funds. Please deposit to continue."), None),
     deposit |->
        MessageItem(Str("To deposit funds, please visit: https://example.com/deposit"), None),
     bet_rejected |->
        MessageItem(Str("Your bet was rejected. Please try again."), None),
     closed_fixture |->
        MessageItem(Str("Fixture is closed. You cannot place bets on this fixture."), None)]

\* CombosMessages(...) of from_minimal: the keyword arguments.
from_minimal_combos ==
    [show_all_markets_by_fixtures |->
        MessageItem(Str("Showing all markets"), None),
     error_to_add_market |->
        MessageItem(Str("Error adding market."), None),
     error_to_get_odds |->
        MessageItem(Str("Error retrieving odds."), None),
     error_to_place_bet |->
        MessageItem(Str("Error placing combo bet."), None),
     empty_combo |->
        MessageItem(Str("Sorry, there isn't any combo yet"), None),
     summary_after_add_market |->
        MessageItem(
            Str("I ve added that pick to your combo Your combo: {PICKS} Total odds: {TOTAL_ODDS}"),
            InlineKeyboardMarkup(<<
                <<[text |-> "My Combo", callback_data |-> Str("combo_show_my_combo"), url |-> None]>>
            >>)),
     summary_after_remove_bet_from_combo |->
        MessageItem(
            Str("I have eliminated the match {BET_REMOVED} This is your combo now {COMBO} What would you like to do now?"),
            InlineKeyboardMarkup(<<
                <<[text |-> "My Combo", callback_data |-> Str("combo_show_my_combo"), url |-> None]>>
            >>)),
     remove_market |->
        MessageItem(Str("Remove a market from your combo"), None),
     select_amount |->
        MessageItem(
            Str("Enter the amount for your combo bet"),
            InlineKeyboardMarkup(<<
                <<[text |-> "5", callback_data |-> Str("5"), url |-> None],
                  [text |-> "10", callback_data |-> Str("10"), url |-> None]>>
            >>)),
     place_combo_bet |->
        MessageItem(
            Str("Do you want to confirm this combo with the following details? {COMBO} Amount {AMOUNT} Total Odds: {TOTAL_ODDS} Potential Win: {PROFIT}"),
            InlineKeyboardMarkup(<<
                <<[text |-> "Confirm Combo Bet", callback_data |-> Str("combo_summary_after_bet"), url |-> None]>>
            >>)),
     summary_after_bet |->
        MessageItem(Str("Your combo bet was placed successfully! Combo: {COMBO} Amount: {AMOUNT} Potential Win: {PROFIT} Balance: {BALANCE}"), None),
     show_my_combo |->
        MessageItem(
            Str("You are currently viewing the following combo bet: {SUMMARY_COMBO} Total Odds: {TOTAL_ODDS}"),
            InlineKeyboardMarkup(<<
                <<[text |-> "Confirm Combo Bet", callback_data |-> Str("combo_select_amount"), url |-> None]>>,
                <<[text |-> "Delete Bet", callback_data |-> Str("combo_delete_combo"), url |-> None]>>,
                <<[text |-> "Add Other Market", callback_data |-> Str("combo_add_market"), url |-> None]>>,
                <<[text |-> "Remove Market", callback_data |-> Str("combo_remove_market"), url |-> None]>>
            >>)),
     delete_combo |->
        MessageItem(
            Str("Are you sure? Do you want to delete your combo bet?"),
            InlineKeyboardMarkup(<<
                <<[text |-> "Yes Delete", callback_data |-> Str("combo_confirm_delete_combo"), url |-> None]>>
            >>)),
     combo_odds |->
        MessageItem(Str("Here are the odds for your combo."), None),
     combos_recommendation |->
        MessageItem(
            Str("Recommended combo: {PICKS} If you bet {AMOUNT} you can potentially win: {PROFIT}"),
            InlineKeyboardMarkup(<<
                <<[text |-> "Add Combo", callback_data |-> Str("combo_select_amount_recommended"), url |-> None]>>
            >>)),
     combos_confirm_add_recommended |->
        MessageItem(
            Str("Done! Your Combo has been successfully created {COMBO}"),
            InlineKeyboardMarkup(<<
                <<[text |-> "View Combo", callback_data |-> Str("combo_show_my_combo"), url |-> None]>>
            >>)),
     delete_bet_from_combo |->
        MessageItem(
            Str(""),
            InlineKeyboardMarkup(<<
                <<[text |-> "My Combo", callback_data |-> Str("combo_show_my_combo"), url |-> None]>>
            >>)),
     replace_bet_from_combo |->
        MessageItem(
            Str(""),
            InlineKeyboardMarkup(<<
                <<[text |-> "My Combo", callback_data |-> Str("combo_show_my_combo"), url |-> None]>>
            >>))]

\* ErrorMessages(...) of from_minimal: the keyword arguments.
from_minimal_errors ==
    [invalid_input |->
        MessageItem(Str("Invalid input."), None),
     error |->
        MessageItem(Str("An error occurred."), None),
     error_2 |->
        MessageItem(Str("Another error occurred."), None),
     error_unavailable_bot |->
        MessageItem(Str("Sorry, the bot is currently unavailable."), None),
     general_errors |->
        DEFAULT_GENERAL_ERRORS]

\* The confirmation group of from_minimal, its message without keyboard.
from_minimal_confirmation_without_keyboard ==
    [confirm_bet |-> MessageItem(Str("Do you confirm your bet?"), None)]

\* ConfirmationMessages(...) of from_minimal: the keyword arguments.
from_minimal_confirmation ==
    [confirm_bet |->
        MessageItem(
            Str("Bet Summary: Match: {DESCRIPTION_GAME} Bet Amount: {AMOUNT} Selection: {BET_NAME} Potential Win: {PROFIT}"),
            InlineKeyboardMarkup(<<
                <<[text |-> "Place Combo", callback_data |-> Str("confirm_bet"), url |-> None]>>
            >>))]

\* LabelMessages(...) of from_minimal: the keyword arguments.
from_minimal_labels ==
    [menu_label_text |->
        MessageItem(Str("Menu"), None),
     label_text |->
        MessageItem(Str("Label"), None),
     combo_summary_after_add_market_label_text |->
        MessageItem(Str("Your combo"), None),
     select_tournament_label_text |->
        MessageItem(Str("Tournaments"), None),
     select_fixture_label_text |->
        MessageItem(Str("Fixtures"), None),
     markets_without_combo_label_text |->
        MessageItem(Str("Markets"), None),
     select_sport_label_text |->
        MessageItem(Str("Sports"), None),
     more_options_text |->
        MessageItem(Str("More options"), None),
     combo_remove_market_label_text |->
        MessageItem(Str("Remove market"), None),
     selected_other_market_label_text |->
        MessageItem(Str("Selected"), None),
     other_markets_label_text |->
        MessageItem(Str("Other markets"), None),
     combo_odds_label_text |->
        MessageItem(Str("Combo odds"), None),
     fixture_odds_label_text |->
        MessageItem(Str("Fixture odds"), None),
     menu_more_options_text |->
        MessageItem(Str("More options"), None),
     list_markets_label_text |->
        MessageItem(Str("Markets"), None),
     list_fixtures_label_text |->
        MessageItem(Str("Fixtures"), None)]

\* EndMessages(...) of from_minimal: the keyword arguments.
from_minimal_end ==
    [end_conversation |->
        MessageItem(Str("Bye!"), None)]

\* GuidanceMessages(...) of from_minimal: the keyword arguments.
from_minimal_guidance ==
    [valid_input_text |->
        MessageItem(Str("Looks good"), None),
     invalid_input_text |->
        MessageItem(Str("Please check your input"), None),
     invalid_input_response |->
        MessageItem(Str("Invalid input, try again."), None)]

\* The message groups of the aggregate: field -> class.
TemplateFields ==
    [onboarding |-> "OnboardingMessages", validation |-> "ValidationMessages",
     registration |-> "RegistrationMessages", menu |-> "MenuMessages",
     bets |-> "BetsMessages", combos |-> "CombosMessages",
     errors |-> "ErrorMessages", confirmation |-> "ConfirmationMessages",
     labels |-> "LabelMessages", end |-> "EndMessages",
     guidance |-> "GuidanceMessages"]

\* The keyword arguments from_minimal gives to the constructor of each group.
from_minimal_kwargs ==
    [onboarding |-> from_minimal_onboarding, validation |-> from_minimal_validation,
     registration |-> from_minimal_registration, menu |-> from_minimal_menu,
     bets |-> from_minimal_bets, combos |-> from_minimal_combos,
     errors |-> from_minimal_errors, confirmation |-> from_minimal_confirmation,
     labels |-> from_minimal_labels, end |-> from_minimal_end,
     guidance |-> from_minimal_guidance]

(* ------------------------------------------------------------------ *)
(* MessageTemplates, MessageTemplatesDB                               *)
(* ------------------------------------------------------------------ *)

\* No instance.
NoTemplates == None

\* An instance of a model given as a value.
Instance(self) == [type |-> "instance", value |-> self]

\* model_dump of a button, a message, a group, the links: nested mappings and
\* lists; title and additional_message are never set.
DumpButton(b) ==
    Dict([text |-> Str(b.text), callback_data |-> b.callback_data, url |-> b.url,
          title |-> None])

\* The dump of a message that leaves its keyboard out.
DumpMessageItem_without_markup(m) ==
    Dict([text |-> m.text, additional_message |-> None, reply_markup |-> None])

DumpMessageItem(m) ==
    Dict([text |-> m.text,
          additional_message |-> None,
          reply_markup |->
              IF m.reply_markup = None THEN None
              ELSE LET kb == m.reply_markup.inline_keyboard
                   IN  Dict([inline_keyboard |->
                                List([r \in 1..Len(kb) |->
                                        List([c \in 1..Len(kb[r]) |->
                                                DumpButton(kb[r][c])])])])])

DumpGroup(g) ==
    Dict([f \in DOMAIN g |->
            IF f = "general_errors" \/ g[f] = None THEN g[f]
            ELSE DumpMessageItem(g[f])])

DumpLinks(links) ==
    Dict([links |->
            List([i \in 1..Len(links) |->
                    Dict([title |-> Str(links[i].title),
                          message_text |-> Str(links[i].message_text),
                          button_label |-> Str(links[i].button_label),
                          button_url |-> Str(links[i].button_url)])])])

\* self.model_dump(): timestamps stay datetime values.
model_dump(self) ==
    Dict([k \in DOMAIN self |->
            IF k \in DOMAIN TemplateFields
            THEN IF self[k] = None THEN None ELSE DumpGroup(self[k])
            ELSE IF k = "links" THEN DumpLinks(self[k])
            ELSE self[k]])

\* What validation reads in a dumped button, message and group.
LoadButton(d) ==
    [text |-> d.items.text.value, callback_data |-> d.items.callback_data,
     url |-> d.items.url]

LoadMessage(d) ==
    IF d = None THEN None
    ELSE Dict([k \in DOMAIN d.items |->
                 IF k = "reply_markup" /\ d.items[k] # None
                 THEN LET kb == d.items[k].items.inline_keyboard.items
                      IN  [inline_keyboard |->
                              [r \in 1..Len(kb) |->
                                  [c \in 1..Len(kb[r].items) |->
                                      LoadButton(kb[r].items[c])]]]
                 ELSE d.items[k]])

LoadGroup(items) ==
    [f \in DOMAIN items |->
        IF f = "general_errors" THEN items[f] ELSE LoadMessage(items[f])]

LoadLinks(d) ==
    LET links == d.items.links.items
    IN  [i \in 1..Len(links) |->
            [title |-> links[i].items.title.value,
             message_text |-> links[i].items.message_text.value,
             button_label |-> links[i].items.button_label.value,
             button_url |-> links[i].items.button_url.value]]

\* Validation of the value given for a group field of the aggregate: None, an
\* instance (kept as it is), or a nested mapping.
ValidateGroup(cls, v) ==
    IF v = None THEN Ok(None)
    ELSE IF v.type = "instance" THEN Ok(v.value)
    ELSE IF v.type = "dict" THEN Validate(cls, LoadGroup(v.items))
    ELSE Err("model_type")

\* Validation of the value given for links.
ValidateLinks(v) ==
    IF v.type = "instance" THEN Ok(v.value)
    ELSE IF v.type = "dict" THEN LinksMessages(LoadLinks(v))
    ELSE Err("model_type")

\* _ensure_keys that raises only when both keys are missing.
_ensure_keys_either(self) ==
    IF ~Truthy(self["PK"]) /\ ~Truthy(self["SK"]) THEN Err("MissingPersistenceKey")
    ELSE Ok(self)

\* MessageTemplatesDB._ensure_keys
_ensure_keys(self) ==
    IF ~Truthy(self["PK"]) \/ ~Truthy(self["SK"]) THEN Err("MissingPersistenceKey")
    ELSE Ok(self)

\* The fields of the aggregate and of its persisted variant.
TemplatesKeys(cls) ==
    DOMAIN TemplateFields \cup {"links", "created_at", "updated_at"}
    \cup (IF cls = "MessageTemplatesDB" THEN {"PK", "SK"} ELSE {})

\* cls(**data) for MessageTemplates and MessageTemplatesDB, the clock reading t:
\* the fields that are given are validated, the others take their defaults,
\* then the after-validator of the persisted variant.
Templates(cls, data, t) ==
    LET errors(groups, links) ==
            {<<k, "extra_forbidden">> : k \in DOMAIN data \ TemplatesKeys(cls)}
            \cup {<<g, groups[g].error>> : g \in {x \in DOMAIN groups : ~groups[x].ok}}
            \cup (IF links.ok THEN {} ELSE {<<"links", links.error>>})
        self(groups, links) ==
            [k \in TemplatesKeys(cls) |->
                IF k \in DOMAIN groups THEN groups[k].value
                ELSE IF k = "links" THEN links.value
                ELSE IF k \in DOMAIN data THEN data[k]
                ELSE IF k \in {"created_at", "updated_at"} THEN Datetime(t)
                ELSE None]
        Validated_fields(groups, links) ==
            IF errors(groups, links) # {} THEN Err(errors(groups, links))
            ELSE IF cls = "MessageTemplatesDB" THEN _ensure_keys(self(groups, links))
            ELSE Ok(self(groups, links))
    IN  Validated_fields([g \in DOMAIN TemplateFields \cap DOMAIN data |->
                             ValidateGroup(TemplateFields[g], data[g])],
                         IF "links" \in DOMAIN data THEN ValidateLinks(data["links"])
                         ELSE DefaultLinksMessages)

\* The buttons that from_minimal constructs for a group.
MinimalButtons(kwargs) ==
    UNION {Range(Flatten(kwargs[f].reply_markup.inline_keyboard)) :
              f \in {x \in DOMAIN kwargs :
                        /\ kwargs[x].type = "MessageItem"
                        /\ kwargs[x].reply_markup # None}}

\* MessageTemplates.from_minimal(): every button and every group is constructed,
\* then the aggregate, with LinksMessages().
from_minimal(t) ==
    LET failed(built) == {g \in DOMAIN built : ~built[g].ok}
        Aggregate(built, links) ==
            IF failed(built) # {} THEN built[CHOOSE g \in failed(built) : TRUE]
            ELSE IF ~links.ok THEN links
            ELSE Templates("MessageTemplates",
                           [g \in DOMAIN TemplateFields |-> Instance(built[g].value)]
                           @@ [links |-> Instance(links.value)], t)
    IN  Aggregate([g \in DOMAIN TemplateFields |->
                      IF \E b \in MinimalButtons(from_minimal_kwargs[g]) :
                            ~InlineKeyboardButton(b).ok
                      THEN Err({<<g, "InvalidButton">>})
                      ELSE Validate(TemplateFields[g], from_minimal_kwargs[g])],
                  DefaultLinksMessages)

\* MessageTemplatesDB.from_minimal(company_id)
DB_from_minimal(company_id, t) ==
    LET Persisted(base) ==
            IF ~base.ok THEN base
            ELSE Templates("MessageTemplatesDB",
                           model_dump(base.value).items
                           @@ [PK |-> Str("company#" \o company_id),
                               SK |-> Str("message_templates")], t)
    IN  Persisted(from_minimal(t))

\* touch that sets created_at as well.
touch_all_timestamps(self, t) ==
    [self EXCEPT !["updated_at"] = Datetime(t), !["created_at"] = Datetime(t)]

\* touch(): self.updated_at = datetime.now(timezone.utc), the clock reading t.
touch(self, t) == [self EXCEPT !["updated_at"] = Datetime(t)]

\* datetime.isoformat() of the clock reading t, in UTC.
isoformat(x) == "2025-01-01T00:00:0" \o ToString(x.value) \o "+00:00"

RECURSIVE ser(_, _)
\* ser that leaves the elements of a list as they are.
ser_not_into_lists(x, drop_none) ==
    IF x.type = "datetime" THEN Str(isoformat(x))
    ELSE IF x.type = "dict"
         THEN LET out == [k \in DOMAIN x.items |-> ser(x.items[k], drop_none)]
              IN  Dict([k \in {j \in DOMAIN out : ~(drop_none /\ out[j] = None)} |->
                           out[k]])
    ELSE x

\* ser of to_dynamodb_item: a dumped model holds no Enum and no model.
ser(x, drop_none) ==
    IF x.type = "datetime" THEN Str(isoformat(x))
    ELSE IF x.type = "dict"
         THEN LET out == [k \in DOMAIN x.items |-> ser(x.items[k], drop_none)]
              IN  Dict([k \in {j \in DOMAIN out : ~(drop_none /\ out[j] = None)} |->
                           out[k]])
    ELSE IF x.type = "list"
         THEN List([i \in 1..Len(x.items) |-> ser(x.items[i], drop_none)])
    ELSE x

to_dynamodb_item(self, drop_none) == ser(model_dump(self), drop_none)

(* ------------------------------------------------------------------ *)
(* site_config_model.py: MoneyLimits                                  *)
(* ------------------------------------------------------------------ *)

\* A finite Decimal is unscaled / 10^scale; NaN and the infinities are not
\* finite.
Decimal(unscaled, scale) ==
    [type |-> "Decimal", finite |-> TRUE, unscaled |-> unscaled, scale |-> scale]

NotFinite == [type |-> "Decimal", finite |-> FALSE, unscaled |-> 0, scale |-> 0]

\* An int, and a float with one decimal place, given in tenths.
Int_(n) == [type |-> "int", value |-> n]

Float(tenths) == [type |-> "float", tenths |-> tenths]

Digits == "0123456789"

IsDigit(c) == \E i \in 1..Len(Digits) : SubSeq(Digits, i, i) = c

DigitValue(c) == (CHOOSE i \in 1..Len(Digits) : SubSeq(Digits, i, i) = c) - 1

AllDigits(s) == \A i \in 1..Len(s) : IsDigit(SubSeq(s, i, i))

RECURSIVE NatValue(_)
\* The number a string of digits writes; 0 for the empty string.
NatValue(s) ==
    IF Len(s) = 0 THEN 0
    ELSE 10 * NatValue(SubSeq(s, 1, Len(s) - 1)) + DigitValue(SubSeq(s, Len(s), Len(s)))

\* s.find(c) + 1
IndexOf(s, c) ==
    IF \E i \in 1..Len(s) : SubSeq(s, i, i) = c
    THEN CHOOSE i \in 1..Len(s) :
            /\ SubSeq(s, i, i) = c
            /\ \A j \in 1..(i - 1) : SubSeq(s, j, j) # c
    ELSE 0

Abs(n) == IF n < 0 THEN -n ELSE n

\* str(v) of a str, an int and a float.
PyStr(v) ==
    CASE v.type = "str" -> v.value
      [] v.type = "int" -> ToString(v.value)
      [] v.type = "float" ->
            (IF v.tenths < 0 THEN "-" ELSE "") \o ToString(Abs(v.tenths) \div 10)
            \o "." \o ToString(Abs(v.tenths) % 10)

\* Decimal(s): blanks around the number are dropped; a sign, digits and a
\* fraction, or nan, inf, infinity in any case; anything else raises
\* InvalidOperation.  The strings of the model hold no exponent and no
\* underscore.
ParseDecimal(str) ==
    LET Number(sign, body) ==
            LET Parts(int, frac) ==
                    IF AllDigits(int) /\ AllDigits(frac) /\ Len(int) + Len(frac) > 0
                    THEN Ok(Decimal(sign * NatValue(int \o frac), Len(frac)))
                    ELSE Err("InvalidOperation")
                Split(dot) ==
                    IF dot = 0 THEN Parts(body, "")
                    ELSE Parts(SubSeq(body, 1, dot - 1), SubSeq(body, dot + 1, Len(body)))
            IN  IF Lower(body) \in {"nan", "inf", "infinity"} THEN Ok(NotFinite)
                ELSE Split(IndexOf(body, "."))
        Signed(s) ==
            IF Len(s) > 0 /\ SubSeq(s, 1, 1) = "-" THEN Number(-1, SubSeq(s, 2, Len(s)))
            ELSE IF Len(s) > 0 /\ SubSeq(s, 1, 1) = "+"
                 THEN Number(1, SubSeq(s, 2, Len(s)))
            ELSE Number(1, s)
    IN  Signed(Strip(str))

RECURSIVE Pow10(_)
Pow10(k) == IF k = 0 THEN 1 ELSE 10 * Pow10(k - 1)

Max(a, b) == IF a >= b THEN a ELSE b

\* The unscaled value of a finite Decimal at scale k, k at least its scale.
Rescaled(d, k) == d.unscaled * Pow10(k - d.scale)

\* a <= b, a < b of finite Decimals
DecimalLessEq(a, b) ==
    Rescaled(a, Max(a.scale, b.scale)) <= Rescaled(b, Max(a.scale, b.scale))

DecimalLess(a, b) ==
    Rescaled(a, Max(a.scale, b.scale)) < Rescaled(b, Max(a.scale, b.scale))

\* MoneyLimits._to_decimal, mode="before"
_to_decimal(v) ==
    IF v = None THEN Ok(v)
    ELSE IF v.type = "Decimal" THEN Ok(v)
    ELSE IF ParseDecimal(PyStr(v)).ok THEN ParseDecimal(PyStr(v))
    ELSE Err("InvalidAmount")

\* A field of type Decimal with Field(ge=0), or with Field(gt=0) when strict,
\* applied to the outcome r of the before-validator: a Decimal is required, it
\* must be finite, then the bound.
DecimalField(r, strict) ==
    IF ~r.ok THEN r
    ELSE IF r.value = None THEN Err("decimal_type")
    ELSE IF ~r.value.finite THEN Err("finite_number")
    ELSE IF strict /\ ~(r.value.unscaled > 0) THEN Err("greater_than")
    ELSE IF ~strict /\ ~(r.value.unscaled >= 0) THEN Err("greater_than_equal")
    ELSE r

\* _max_gt_min that accepts a maximum equal to the minimum.
_max_gt_min_accepting_equal(v, info_data) ==
    IF "min_bet_amount" \in DOMAIN info_data
       /\ DecimalLess(v, info_data["min_bet_amount"])
    THEN Err("MaxNotGreaterThanMin")
    ELSE Ok(v)

\* MoneyLimits._max_gt_min: info.data holds the fields validated so far; every
\* value it holds for min_bet_amount is a Decimal.
_max_gt_min(v, info_data) ==
    IF "min_bet_amount" \in DOMAIN info_data
       /\ DecimalLessEq(v, info_data["min_bet_amount"])
    THEN Err("MaxNotGreaterThanMin")
    ELSE Ok(v)

\* MoneyLimits(min_bet_amount=..., max_bet_amount=...): the fields in their
\* order; the after-validator of max_bet_amount runs when the field passed.
MoneyLimits(data) ==
    LET Info(min) == IF min.ok THEN [min_bet_amount |-> min.value] ELSE <<>>
        Checked(min, max) ==
            IF max.ok THEN _max_gt_min(max.value, Info(min)) ELSE max
        Model(min, max) ==
            IF min.ok /\ max.ok
            THEN Ok([min_bet_amount |-> min.value, max_bet_amount |-> max.value])
            ELSE Err((IF min.ok THEN {} ELSE {<<"min_bet_amount", min.error>>})
                     \cup (IF max.ok THEN {} ELSE {<<"max_bet_amount", max.error>>}))
        Fields_(min, max) == Model(min, Checked(min, max))
    IN  Fields_(DecimalField(_to_decimal(data["min_bet_amount"]), FALSE),
                DecimalField(_to_decimal(data["max_bet_amount"]), TRUE))

\* Amounts given to MoneyLimits, each with the number it writes, in
\* hundredths: Decimals, strings, ints, floats, None.
Amount(given, kind, hundredths) ==
    [given |-> given, kind |-> kind, hundredths |-> hundredths]

Amounts ==
    {Amount(Decimal(100, 2), "number", 100),
     Amount(Decimal(10000, 2), "number", 10000),
     Amount(Decimal(0, 0), "number", 0),
     Amount(Decimal(-1, 0), "number", -100),
     Amount(Decimal(100, 0), "number", 10000),
     Amount(Decimal(50, 0), "number", 5000),
     Amount(Str("1.50"), "number", 150),
     Amount(Str("50.00"), "number", 5000),
     Amount(Str("100"), "number", 10000),
     Amount(Str("0"), "number", 0),
     Amount(Str("-0.5"), "number", -50),
     Amount(Str(" 2 "), "number", 200),
     Amount(Str("invalid"), "unconvertible", 0),
     Amount(Str(""), "unconvertible", 0),
     Amount(Str("1.5.0"), "unconvertible", 0),
     Amount(Str("NaN"), "not_finite", 0),
     Amount(Int_(0), "number", 0),
     Amount(Int_(1), "number", 100),
     Amount(Int_(100), "number", 10000),
     Amount(Int_(-1), "number", -100),
     Amount(Float(15), "number", 150),
     Amount(Float(1005), "number", 10050),
     Amount(Float(0), "number", 0),
     Amount(None, "none", 0)}

(* ------------------------------------------------------------------ *)
(* promotion_config.py: PromotionItem, PromotionsConfig               *)
(* ------------------------------------------------------------------ *)

\* Most calls of add_promotion and remove_promotion on one configuration.
MaxCalls == 2

\* title: min_length=1, max_length=200; details: max_length=5000
MaxPromotionTitleLen == 200

MaxDetailsLen == 5000

\* "Maximum 20 keywords allowed", "Keyword too long (max 50 chars)"
MaxKeywords == 20

MaxKeywordLen == 50

\* "Maximum 100 promotions allowed"
MaxPromotions == 100

\* cleaned.isdigit()
isdigit(s) == Len(s) > 0 /\ AllDigits(s)

PromotionItem_validate_title(v) ==
    LET After(cleaned) ==
            IF cleaned = "" THEN Err("Title cannot be empty or only whitespace")
            ELSE IF isdigit(cleaned) THEN Err("Title cannot be purely numeric")
            ELSE Ok(cleaned)
    IN  After(Strip(v))

\* The second loop of _validate_keywords: duplicates removed, order preserved.
RECURSIVE unique(_)
unique(cleaned) ==
    IF cleaned = <<>> THEN <<>>
    ELSE LET Add(seen, kw) ==
                 IF \E i \in 1..Len(seen) : seen[i] = kw THEN seen
                 ELSE Append(seen, kw)
         IN  Add(unique(SubSeq(cleaned, 1, Len(cleaned) - 1)),
                 cleaned[Len(cleaned)])

_validate_keywords(v) ==
    LET After(cleaned) ==
            IF \E i \in 1..Len(cleaned) : Len(cleaned[i]) > MaxKeywordLen
            THEN Err("Keyword too long (max 50 chars)")
            ELSE Ok(unique(cleaned))
        NotEmpty(kw) == kw # ""
    IN  IF Len(v) > MaxKeywords THEN Err("Maximum 20 keywords allowed")
        ELSE After(SelectSeq([i \in 1..Len(v) |-> Lower(Strip(v[i]))], NotEmpty))

_validate_details(v) ==
    IF Strip(v) = "" THEN Err("Details cannot be empty") ELSE Ok(v)

_validate_dates(self) ==
    IF self.end_date <= self.start_date
    THEN Err("end_date must be after start_date")
    ELSE Ok(self)

\* PromotionItem(promotion_id=..., title=..., start_date=..., end_date=...,
\* details=..., keywords=...): the fields in their order, each with its length
\* constraints before its validator, and the model validator when every field
\* passed.
PromotionItem(data) ==
    IF Len(data.title) < 1 THEN Err("string_too_short")
    ELSE IF Len(data.title) > MaxPromotionTitleLen THEN Err("string_too_long")
    ELSE IF ~PromotionItem_validate_title(data.title).ok THEN PromotionItem_validate_title(data.title)
    ELSE IF Len(data.details) > MaxDetailsLen THEN Err("string_too_long")
    ELSE IF ~_validate_details(data.details).ok
         THEN _validate_details(data.details)
    ELSE IF ~_validate_keywords(data.keywords).ok
         THEN _validate_keywords(data.keywords)
    ELSE _validate_dates([promotion_id |-> data.promotion_id,
                          title |-> PromotionItem_validate_title(data.title).value,
                          start_date |-> data.start_date,
                          end_date |-> data.end_date,
                          details |-> data.details,
                          keywords |-> _validate_keywords(data.keywords).value])

\* ids = [p.promotion_id for p in v]
ids(v) == {v[i].promotion_id : i \in 1..Len(v)}

_validate_promotions(v) ==
    IF Len(v) > MaxPromotions THEN Err("Maximum 100 promotions allowed")
    ELSE IF Len(v) # Cardinality(ids(v))
         THEN Err("Duplicate promotion_id found in promotions array")
    ELSE Ok(v)

\* PromotionsConfig(promotions=..., created_at=..., updated_at=...): the list is
\* validated and copied; PromotionItem instances in it are not validated again.
PromotionsConfig(promotions, created_at, updated_at) ==
    IF ~_validate_promotions(promotions).ok THEN _validate_promotions(promotions)
    ELSE Ok([promotions |-> promotions,
             created_at |-> created_at,
             updated_at |-> updated_at])

\* PromotionsConfig.from_minimal(), the clock reading t.
Promotions_from_minimal(t) == PromotionsConfig(<<>>, t, t)

\* PromotionsConfig.touch(), the clock reading t.
Promotions_touch(self, t) == [self EXCEPT !.updated_at = t]

\* str(uuid4()): an identifier that no promotion of the list carries (a
\* collision of random identifiers is left out).
RECURSIVE uuid4(_, _)
uuid4(k, taken) ==
    IF ("uuid-" \o ToString(k)) \in taken THEN uuid4(k + 1, taken)
    ELSE "uuid-" \o ToString(k)

\* add_promotion, refreshing updated_at before the promotion is validated.
add_promotion_touching_first(self, a, t) ==
    LET After(promotion) ==
            IF ~promotion.ok
            THEN [self |-> Promotions_touch(self, t), result |-> promotion]
            ELSE [self |-> Promotions_touch(
                               [self EXCEPT !.promotions =
                                               Append(@, promotion.value)], t),
                  result |-> promotion]
    IN  After(PromotionItem(
                 [promotion_id |-> IF Truthy(a.promotion_id) THEN a.promotion_id.value
                                   ELSE uuid4(1, ids(self.promotions)),
                  title |-> a.title,
                  start_date |-> a.start_date,
                  end_date |-> a.end_date,
                  details |-> a.details,
                  keywords |-> IF a.keywords = None THEN <<>>
                               ELSE a.keywords.items]))

\* self.add_promotion(title=..., start_date=..., end_date=..., details=...,
\* keywords=..., promotion_id=...), the clock reading t: the receiver after the
\* call and what the call returns or raises.
add_promotion(self, a, t) ==
    LET After(promotion) ==
            IF ~promotion.ok THEN [self |-> self, result |-> promotion]
            ELSE [self |-> Promotions_touch(
                               [self EXCEPT !.promotions =
                                               Append(@, promotion.value)], t),
                  result |-> promotion]
    IN  After(PromotionItem(
                 [promotion_id |-> IF Truthy(a.promotion_id) THEN a.promotion_id.value
                                   ELSE uuid4(1, ids(self.promotions)),
                  title |-> a.title,
                  start_date |-> a.start_date,
                  end_date |-> a.end_date,
                  details |-> a.details,
                  keywords |-> IF a.keywords = None THEN <<>>
                               ELSE a.keywords.items]))

\* The list without its i-th entry: self.promotions.pop(i)
pop(list, i) == SubSeq(list, 1, i - 1) \o SubSeq(list, i + 1, Len(list))

\* The positions of the promotions that carry the identifier.
Positions(list, promotion_id) ==
    {i \in 1..Len(list) : list[i].promotion_id = promotion_id}

\* The first position of a non-empty set of positions.
First(positions) == CHOOSE i \in positions : \A j \in positions : i <= j

\* remove_promotion, removing every promotion that carries the identifier.
remove_promotion_every_match(self, promotion_id, t) ==
    IF Positions(self.promotions, promotion_id) = {}
    THEN [self |-> self, result |-> Ok(FALSE)]
    ELSE LET Other(p) == p.promotion_id # promotion_id
         IN  [self |-> Promotions_touch(
                           [self EXCEPT !.promotions = SelectSeq(@, Other)], t),
              result |-> Ok(TRUE)]

\* self.remove_promotion(promotion_id), the clock reading t.
remove_promotion(self, promotion_id, t) ==
    IF Positions(self.promotions, promotion_id) = {}
    THEN [self |-> self, result |-> Ok(FALSE)]
    ELSE [self |-> Promotions_touch(
                      [self EXCEPT !.promotions =
                          pop(@, First(Positions(@, promotion_id)))], t),
          result |-> Ok(TRUE)]

\* self.get_promotion(promotion_id)
get_promotion(self, promotion_id) ==
    IF Positions(self.promotions, promotion_id) = {} THEN None
    ELSE self.promotions[First(Positions(self.promotions, promotion_id))]

\* The i-th promotion of a list handed to the constructor, a PromotionItem that
\* passed its validation.
Promotion(i) ==
    [promotion_id |-> "promo-" \o ToString(i),
     title |-> "Promo" \o ToString(i),
     start_date |-> 0,
     end_date |-> 1,
     details |-> "Details",
     keywords |-> <<>>]

\* Lists of n promotions; with same_id the last one carries the identifier of
\* the first.
Promotions(n, same_id) ==
    [i \in 1..n |-> IF same_id /\ i = n /\ n > 1
                    THEN [Promotion(i) EXCEPT !.promotion_id = Promotion(1).promotion_id]
                    ELSE Promotion(i)]

\* How many promotions a constructed configuration holds: none, a few, and
\* around the maximum.
ConfigSizes == {0, 1, 2, MaxPromotions - 1, MaxPromotions, MaxPromotions + 1}

\* The identifiers a caller passes to add_promotion: none, an empty one, one of
\* its own, and the identifier of a promotion of the list.
GivenIds(self) ==
    {None, Str(""), Str("custom-id-123")}
    \cup {Str(self.promotions[i].promotion_id) : i \in {1} \cap DOMAIN self.promotions}

\* The arguments of the tests' add_promotion calls.
BlackFriday ==
    [promotion_id |-> None,
     title |-> "Black Friday",
     start_date |-> 1,
     end_date |-> 2,
     details |-> "Huge discounts!",
     keywords |-> None]

\* Arguments of add_promotion: the valid ones with each identifier, with a
\* padded title and keywords to normalise, and the ones with one defect each.
AddArguments(self) ==
    {[BlackFriday EXCEPT !.promotion_id = id] : id \in GivenIds(self)}
    \cup {[BlackFriday EXCEPT !.title = "  Sale 50  ",
                              !.keywords = List(<<" Black ", "black", "", "FRIDAY">>)],
          [BlackFriday EXCEPT !.title = "   "],
          [BlackFriday EXCEPT !.title = " 123 "],
          [BlackFriday EXCEPT !.end_date = 1],
          [BlackFriday EXCEPT !.end_date = 0],
          [BlackFriday EXCEPT !.details = "  "],
          [BlackFriday EXCEPT !.keywords = List([i \in 1..(MaxKeywords + 1) |-> "kw"])]}

\* The identifiers a caller passes to remove_promotion and get_promotion.
AskedIds(self) ==
    {"nonexistent-id", "custom-id-123"}
    \cup {self.promotions[i].promotion_id : i \in {1} \cap DOMAIN self.promotions}

(* ------------------------------------------------------------------ *)
(* Calls of require_callbacks                                         *)
(* ------------------------------------------------------------------ *)

NeedleStrings == {"bet", "bet_simple", "simple", "impl", "BET"}

\* One needle list for every set of at most MaxNeedles needles.
NeedleLists ==
    {SetToSeq(S) : S \in {T \in SUBSET NeedleStrings : Cardinality(T) <= MaxNeedles}}

(* ------------------------------------------------------------------ *)
(* Payloads given to the message groups                               *)
(* ------------------------------------------------------------------ *)

\* Marks a key that a payload does not hold.
Absent == [type |-> "absent"]

\* The mapping that holds the keys of choice that are not Absent.
Payload(choice) ==
    [k \in {x \in DOMAIN choice : choice[x] # Absent} |-> choice[k]]

CallbackButton(cd) == [text |-> "Go", callback_data |-> Str(cd), url |-> None]

UrlButton == [text |-> "Go", callback_data |-> None, url |-> Str("https://example.com")]

\* Messages whose callback tokens hold capital letters.
CasedMessages ==
    {MessageItem(Str("Hello"),
                 InlineKeyboardMarkup(<<[i \in 1..Len(tokens) |->
                                           CallbackButton(tokens[i])]>>)) :
        tokens \in {<<"Bet">>, <<"BET_SIMPLE">>, <<"Bet_Simple", "other">>}}

\* A dict-shaped message with a keyboard.
DictMessage(kb) == Dict([text |-> Str("T"), reply_markup |-> [inline_keyboard |-> kb]])

\* A dict-shaped message with one row of callback buttons.
RowMessage(tokens) ==
    DictMessage(<<[i \in 1..Len(tokens) |-> CallbackButton(tokens[i])]>>)

\* Values for a contract-bearing field whose rule needs the tokens in need: a row
\* of every subset of need and one other token, one needed token per row, URL
\* buttons only, an empty keyboard, no markup, a bare string, None, an instance.
FullPool(need) ==
    {Absent, None, Str("T"), Dict([text |-> Str("T")]), DictMessage(<<>>),
     DictMessage(<<<<UrlButton>>>>),
     DictMessage([i \in 1..Len(need) |-> <<CallbackButton(need[i])>>]),
     MessageItem(Str("T"),
                 InlineKeyboardMarkup(<<[i \in 1..Len(need) |-> CallbackButton(need[i])]>>))}
    \cup {RowMessage(SetToSeq(T)) : T \in SUBSET (Range(need) \cup {"other"})}

\* Fewer values: absent, None, a bare string, the needed tokens, another token.
SmallPool(need) ==
    {Absent, None, Str("T"), RowMessage(need), RowMessage(<<"other">>)}

\* Values for a field without a contract.
PlainPool(text) == {Absent, Str(text), Dict([text |-> Str(text)])}

Choices(cls) ==
    CASE cls = "OnboardingMessages" ->
            [member_onboarding : FullPool(<<"account_yes", "account_no">>),
             greeting_message : PlainPool("Hello")]
      [] cls = "ValidationMessages" ->
            [send_otp : FullPool(<<"send_otp">>),
             bad_otp : SmallPool(<<"send_otp">>),
             error_otp : SmallPool(<<"send_otp">>),
             member_validation : {Absent, Str("Validate")}]
      [] cls = "MenuMessages" ->
            [main_menu : SmallPool(<<"bet">>),
             support_message : {Absent, Str("legacy")},
             support : {Absent, Str("canonical")},
             withdrawal_message : {Absent, Str("legacy")},
             withdrawal : {Absent, Str("canonical")},
             deposit_message : {Absent, Str("legacy")},
             deposit : {Absent, Str("canonical")},
             show_links_message : {Absent, Str("legacy")},
             show_links : {Absent, Str("canonical")}]
      [] cls = "BetsMessages" ->
            [select_type_of_bet :
                FullPool(<<"bet_simple&{FIXTURE_ID}", "add_market_to_combo&{FIXTURE_ID}">>),
             select_sport : PlainPool("Sport")]
      [] cls = "CombosMessages" ->
            [combos_recommendation : SmallPool(<<"combo_select_amount_recommended">>),
             combos_confirm_add_recommended : {Absent, None, Str("Add?")},
             delete_combo :
                {Absent, RowMessage(<<"combo_confirm_delete_combo">>),
                 RowMessage(<<"other">>)},
             place_combo_bet :
                {Absent, RowMessage(<<"combo_summary_after_bet">>),
                 RowMessage(<<"other">>)},
             errro_to_place_bet : {Absent, Str("misspelt")},
             error_to_place_bet : {Absent, Str("correct")},
             sumary_after_bet : {Absent, Str("misspelt")},
             summary_after_bet : {Absent, Str("correct")}]
      [] cls = "ConfirmationMessages" ->
            [confirm_bet : FullPool(<<"confirm_bet">>)]
      [] cls = "ErrorMessages" ->
            [invalid_input : {Absent, None, Str("Invalid"), Dict([text |-> Str("Invalid")]),
                              MessageItem(Str("Invalid"), None)},
             error : PlainPool("Error"),
             general_errors : {Absent, None, GivenGeneralErrors}]

Payloads(cls) == {Payload(c) : c \in Choices(cls)}

(* ------------------------------------------------------------------ *)
(* Inputs of _coerce and of the button constructor                    *)
(* ------------------------------------------------------------------ *)

\* Values that are none of None, str, dict, MessageItem.
OtherValues == {[type |-> "int", value |-> 7], [type |-> "list", value |-> <<>>]}

CoerceInputs ==
    {None, Str(""), Str("hello"), Dict(<<>>), Dict([text |-> Str("hello")]),
     Dict([text |-> Str("hello"), reply_markup |-> [inline_keyboard |-> <<>>]]),
     Dict([caption |-> Str("hello")])}
    \cup Messages \cup OtherValues

RECURSIVE Repeat(_, _)
\* c * n
Repeat(c, n) == IF n = 0 THEN "" ELSE c \o Repeat(c, n - 1)

\* Arguments of the button constructor: an empty and a non-empty label, callback
\* tokens of length 0, 3, 64 and 65, a URL, an empty URL, and None for either.
ButtonInputs ==
    [text : {"", "Go"},
     callback_data : {None, Str(""), Str("bet"), Str(Repeat("a", MaxCallbackLen)),
                      Str(Repeat("a", MaxCallbackLen + 1))},
     url : {None, Str(""), Str("https://example.com")}]

(* ------------------------------------------------------------------ *)
(* Links collections                                                  *)
(* ------------------------------------------------------------------ *)

\* A required link after an edit: title in lower case with blanks around it,
\* other content.
Edited(link) ==
    [title |-> " " \o Lower(link.title) \o " ", message_text |-> "edited",
     button_label |-> "Edited", button_url |-> "http://edited.example.com"]

\* A custom link, as the tests build them.
CustomLink(i) ==
    [title |-> "Link" \o ToString(i), message_text |-> "Message " \o ToString(i),
     button_label |-> "Label " \o ToString(i),
     button_url |-> "https://example.com/" \o ToString(i)]

\* A link whose title is that of the support link in capitals.
SupportInCapitals ==
    [title |-> "SUPPORT", message_text |-> "Different message",
     button_label |-> "Different Label", button_url |-> "https://example.com/help2"]

\* A link that is no valid LinkItem.
NotALink ==
    [title |-> "Files", message_text |-> "Get the files",
     button_label |-> "Files", button_url |-> "ftp://example.com"]

\* The required links of a collection: each default is kept, edited, or left out.
RequiredPart(how) ==
    LET kept == {i \in 1..Len(DEFAULT_LINKS) : how[i] # "absent"}
        order == SetToSeq(kept)
    IN  [k \in 1..Len(order) |->
            IF how[order[k]] = "edited" THEN Edited(DEFAULT_LINKS[order[k]])
            ELSE DEFAULT_LINKS[order[k]]]

\* Every way to keep, edit or leave out each of the required links.
Hows == [1..Len(DEFAULT_LINKS) -> {"absent", "default", "edited"}]

\* The ways that go with many custom links: all kept, all edited, the first left
\* out, the first edited.
CapHows ==
    {[i \in 1..Len(DEFAULT_LINKS) |-> "default"],
     [i \in 1..Len(DEFAULT_LINKS) |-> "edited"],
     [i \in 1..Len(DEFAULT_LINKS) |-> IF i = 1 THEN "absent" ELSE "default"],
     [i \in 1..Len(DEFAULT_LINKS) |-> IF i = 1 THEN "edited" ELSE "default"]}

\* How many custom links a collection holds: none, one, and the numbers that
\* bring the required links to the cap and around it.
FewCustom == {0, 1}

ManyCustom ==
    {MaxLinks - Len(DEFAULT_LINKS) - 1, MaxLinks - Len(DEFAULT_LINKS),
     MaxLinks - Len(DEFAULT_LINKS) + 1}

\* What follows the custom links: nothing, a second support link, an invalid link.
Tails == {<<>>, <<SupportInCapitals>>, <<NotALink>>}

LinksCollection(how, n, tail) ==
    RequiredPart(how) \o [i \in 1..n |-> CustomLink(i)] \o tail

(* ------------------------------------------------------------------ *)
(* Arguments of the aggregate                                         *)
(* ------------------------------------------------------------------ *)

\* A confirmation group that is valid, as an instance and as a nested mapping,
\* and a nested mapping whose keyboard lacks confirm_bet.
ConfirmationValues ==
    {Absent, None,
     Instance(BaseModel("ConfirmationMessages",
                        [confirm_bet |-> RowMessage(<<"confirm_bet">>)]).value),
     Dict([confirm_bet |-> DumpMessageItem(from_minimal_confirmation.confirm_bet)]),
     Dict([confirm_bet |-> Dict([text |-> Str("Confirm?"),
                                 additional_message |-> None,
                                 reply_markup |-> None])])}

TemplatesChoices(cls) ==
    IF cls = "MessageTemplatesDB"
    THEN [PK : {Absent, None, Str(""), Str("company#123")},
          SK : {Absent, None, Str(""), Str("message_templates")},
          updated_at : {Absent, Datetime(MaxTime)},
          confirmation : ConfirmationValues]
    ELSE [PK : {Absent, Str("company#123")},
          updated_at : {Absent, Datetime(MaxTime)},
          confirmation : ConfirmationValues]

TemplatesPayloads(cls) == {Payload(c) : c \in TemplatesChoices(cls)}

CompanyIds == {"", "123", "test_company"}

(* ------------------------------------------------------------------ *)
(* The calls                                                          *)
(* ------------------------------------------------------------------ *)

Init ==
    /\ op = "idle"
    /\ args = <<>>
    /\ obj = <<>>
    /\ result = <<>>
    /\ now = 0
    /\ templates = NoTemplates
    /\ heap = ModuleTables
    /\ instances = <<>>
    /\ button = None
    /\ config = None
    /\ calls = 0

\* require_callbacks(msg, needles, mode, match_mode, case_sensitive)
RequireCallbacks ==
    /\ op = "idle"
    /\ UNCHANGED <<now, templates, objects>>
    /\ \E msg \in Messages \cup CasedMessages \cup {None}, needles \in NeedleLists,
          mode \in Modes, match_mode \in MatchModes, case_sensitive \in BOOLEAN :
          /\ op' = "require_callbacks"
          /\ args' = [msg |-> msg, needles |-> needles, mode |-> mode,
                      match_mode |-> match_mode, case_sensitive |-> case_sensitive]
          /\ result' = require_callbacks(msg, needles, mode, match_mode,
                                         case_sensitive)
          /\ UNCHANGED obj

\* cls(**data): obj is the mapping the caller keeps.
Construct ==
    /\ op = "idle"
    /\ UNCHANGED <<now, templates, objects>>
    /\ \E cls \in Groups : \E data \in Payloads(cls) :
          /\ op' = "construct"
          /\ args' = [cls |-> cls, data |-> data]
          /\ obj' = data
          /\ result' = BaseModel(cls, data)

\* cls.model_validate(data): obj is the caller's mapping as the call leaves it.
CallModelValidate ==
    /\ op = "idle"
    /\ UNCHANGED <<now, templates, objects>>
    /\ \E cls \in Groups : \E data \in Payloads(cls) :
          /\ op' = "model_validate"
          /\ args' = [cls |-> cls, data |-> data]
          /\ obj' = ModelValidate(cls, data).obj
          /\ result' = ModelValidate(cls, data).result

\* MessageTemplates.model_validate({<field of type cls>: data}): a group given as
\* a nested mapping; the outcome is that of the group.  The before-validator of
\* ErrorMessages is handed the nested mapping itself.
ValidateNested ==
    /\ op = "idle"
    /\ UNCHANGED <<now, templates, objects>>
    /\ \E cls \in Groups \cup {"ErrorMessages"} : \E data \in Payloads(cls) :
          /\ op' = "nested"
          /\ args' = [cls |-> cls, data |-> data]
          /\ obj' = IF cls = "ErrorMessages" THEN Errors_left(data) ELSE data
          /\ result' = Validate(cls, data)

\* ErrorMessages(**data) and ErrorMessages.model_validate(data): the class has no
\* model_validate override.  **data hands the validators a new mapping,
\* model_validate hands them the caller's.
BuildErrors ==
    /\ op = "idle"
    /\ UNCHANGED <<now, templates, objects>>
    /\ \E path \in {"construct_errors", "model_validate_errors"} :
       \E data \in Payloads("ErrorMessages") :
          /\ op' = path
          /\ args' = [cls |-> "ErrorMessages", data |-> data]
          /\ obj' = IF path = "model_validate_errors"
                    THEN Errors_model_validate(data).obj ELSE data
          /\ result' = Errors_model_validate(data).result

\* cls.model_validate(d) once more, d being the mapping that the first call
\* validated, as that call left it; args keeps the first call and its outcome.
ValidateAgain ==
    /\ op \in {"model_validate", "model_validate_errors"}
    /\ UNCHANGED <<now, templates, objects>>
    /\ \E again \in {IF op = "model_validate" THEN ModelValidate(args.cls, obj)
                      ELSE Errors_model_validate(obj)} :
          /\ op' = "validate_again"
          /\ args' = [cls |-> args.cls, data |-> args.data, first |-> result,
                      left |-> obj]
          /\ obj' = again.obj
          /\ result' = again.result

\* ErrorMessages(...) with or without general_errors: the instance is kept.
NewErrors ==
    /\ op = "idle" \/ instances # <<>>
    /\ Len(instances) < MaxInstances
    /\ \E how \in TableArguments :
          LET n == Len(instances) + 1
          IN  /\ op' = "new_errors"
              /\ args' = [how |-> how]
              /\ result' = Ok(None)
              /\ instances' =
                    Append(instances,
                           [general_errors |->
                               IF how = "none" THEN general_errors_default
                               ELSE OwnTable(n)])
              /\ heap' = IF how = "none" THEN heap
                         ELSE heap @@ (OwnTable(n) :> GivenTable(how, heap))
    /\ UNCHANGED <<obj, now, templates, button, config, calls>>

\* instances[i].general_errors["en"].append("appended"): args keeps the tables
\* as they were.
AppendToTable ==
    /\ instances # <<>>
    /\ \E i \in 1..Len(instances) :
          /\ Appended(heap[instances[i].general_errors]) < MaxAppends
          /\ op' = "append_text"
          /\ args' = [i |-> i, before |-> heap]
          /\ result' = Ok(None)
          /\ heap' = [heap EXCEPT ![instances[i].general_errors] =
                                      AppendText(@, "en", "appended")]
    /\ UNCHANGED <<obj, now, templates, instances, button, config, calls>>

\* MoneyLimits(min_bet_amount=..., max_bet_amount=...)
ConstructMoneyLimits ==
    /\ op = "idle"
    /\ UNCHANGED <<now, templates, objects>>
    /\ \E min \in Amounts, max \in Amounts :
          /\ op' = "money_limits"
          /\ args' = [min_bet_amount |-> min.given, max_bet_amount |-> max.given]
          /\ result' = MoneyLimits([min_bet_amount |-> min.given,
                                    max_bet_amount |-> max.given])
          /\ UNCHANGED obj

\* MessageItem._coerce(v)
Coerce ==
    /\ op = "idle"
    /\ UNCHANGED <<now, templates, objects>>
    /\ \E v \in CoerceInputs :
          /\ op' = "_coerce"
          /\ args' = [v |-> v]
          /\ result' = Ok(_coerce(v))
          /\ UNCHANGED obj

\* InlineKeyboardButton(text=..., callback_data=..., url=...): the caller keeps
\* the button when there is one.
ConstructButton ==
    /\ op = "idle"
    /\ UNCHANGED <<now, templates, heap, instances, config, calls>>
    /\ \E btn \in ButtonInputs :
          /\ op' = "button"
          /\ args' = [btn |-> btn]
          /\ result' = InlineKeyboardButton(btn)
          /\ button' = IF InlineKeyboardButton(btn).ok THEN btn ELSE None
          /\ UNCHANGED obj

\* button.callback_data = value, button.url = value: the model sets neither
\* frozen nor validate_assignment, so the attribute is set and no validator
\* runs.  args keeps the button as it was.
SetAttribute ==
    /\ button # None
    /\ \E name \in {"callback_data", "url"} :
       \E value \in {b[name] : b \in ButtonInputs} :
          /\ op' = "setattr"
          /\ args' = [self |-> button, name |-> name, value |-> value]
          /\ result' = Ok(None)
          /\ button' = [button EXCEPT ![name] = value]
    /\ UNCHANGED <<obj, now, templates, heap, instances, config, calls>>

\* LinksMessages(links=links)
ConstructLinks ==
    /\ op = "idle"
    /\ UNCHANGED <<now, templates, objects>>
    /\ \E how \in Hows, n \in FewCustom \cup ManyCustom, tail \in Tails :
          /\ n \in ManyCustom => how \in CapHows
          /\ op' = "links"
          /\ args' = [links |-> LinksCollection(how, n, tail)]
          /\ result' = LinksMessages(LinksCollection(how, n, tail))
          /\ UNCHANGED obj

\* MessageTemplates(**data), MessageTemplatesDB(**data): the caller keeps the
\* instance when there is one.
ConstructTemplates ==
    /\ op = "idle"
    /\ \E cls \in {"MessageTemplates", "MessageTemplatesDB"} :
       \E data \in TemplatesPayloads(cls) :
       \E r \in {Templates(cls, data, now)} :
          /\ op' = "construct_templates"
          /\ args' = [cls |-> cls, data |-> data, now |-> now]
          /\ result' = r
          /\ templates' = IF r.ok THEN r.value ELSE NoTemplates
    /\ UNCHANGED <<obj, now, objects>>

\* MessageTemplates.from_minimal()
FromMinimal ==
    /\ op = "idle"
    /\ \E r \in {from_minimal(now)} :
          /\ op' = "from_minimal"
          /\ args' = [cls |-> "MessageTemplates", now |-> now]
          /\ result' = r
          /\ templates' = IF r.ok THEN r.value ELSE NoTemplates
    /\ UNCHANGED <<obj, now, objects>>

\* MessageTemplatesDB.from_minimal(company_id)
FromMinimalDB ==
    /\ op = "idle"
    /\ \E company_id \in CompanyIds :
       \E r \in {DB_from_minimal(company_id, now)} :
          /\ op' = "from_minimal"
          /\ args' = [cls |-> "MessageTemplatesDB", company_id |-> company_id,
                      now |-> now]
          /\ result' = r
          /\ templates' = IF r.ok THEN r.value ELSE NoTemplates
    /\ UNCHANGED <<obj, now, objects>>

\* Time passes while the caller holds an instance.
Tick ==
    /\ templates # NoTemplates \/ config # None
    /\ now < MaxTime
    /\ now' = now + 1
    /\ UNCHANGED <<op, args, obj, result, templates, objects>>

\* templates.touch(): args keeps the receiver as it was and the clock reading.
Touch ==
    /\ templates # NoTemplates
    /\ op' = "touch"
    /\ args' = [self |-> templates, now |-> now]
    /\ templates' = touch(templates, now)
    /\ result' = Ok(None)
    /\ UNCHANGED <<obj, now, objects>>

\* templates.to_dynamodb_item(drop_none=...)
ToDynamoDBItem ==
    /\ templates # NoTemplates
    /\ \E drop_none \in BOOLEAN :
          /\ op' = "to_dynamodb_item"
          /\ args' = [self |-> templates, drop_none |-> drop_none]
          /\ result' = Ok(to_dynamodb_item(templates, drop_none))
    /\ UNCHANGED <<obj, now, templates, objects>>

\* PromotionsConfig(promotions=[...]): the caller keeps the configuration when
\* there is one.
ConstructPromotions ==
    /\ op = "idle"
    /\ \E n \in ConfigSizes, same_id \in BOOLEAN :
       \E r \in {PromotionsConfig(Promotions(n, same_id), now, now)} :
          /\ same_id => n = 2
          /\ op' = "promotions_config"
          /\ args' = [n |-> n, same_id |-> same_id, now |-> now]
          /\ result' = r
          /\ config' = IF r.ok THEN r.value ELSE None
    /\ calls' = 0
    /\ UNCHANGED <<obj, now, templates, heap, instances, button>>

\* PromotionsConfig.from_minimal()
PromotionsFromMinimal ==
    /\ op = "idle"
    /\ \E r \in {Promotions_from_minimal(now)} :
          /\ op' = "promotions_from_minimal"
          /\ args' = [now |-> now]
          /\ result' = r
          /\ config' = IF r.ok THEN r.value ELSE None
    /\ calls' = 0
    /\ UNCHANGED <<obj, now, templates, heap, instances, button>>

\* config.add_promotion(...): args keeps the receiver as it was, the arguments
\* and the clock reading.
AddPromotion ==
    /\ config # None
    /\ calls < MaxCalls
    /\ \E a \in AddArguments(config) :
       \E r \in {add_promotion(config, a, now)} :
          /\ op' = "add_promotion"
          /\ args' = [self |-> config, a |-> a, now |-> now]
          /\ result' = r.result
          /\ config' = r.self
    /\ calls' = calls + 1
    /\ UNCHANGED <<obj, now, templates, heap, instances, button>>

\* config.remove_promotion(promotion_id)
RemovePromotion ==
    /\ config # None
    /\ calls < MaxCalls
    /\ \E promotion_id \in AskedIds(config) :
       \E r \in {remove_promotion(config, promotion_id, now)} :
          /\ op' = "remove_promotion"
          /\ args' = [self |-> config, promotion_id |-> promotion_id, now |-> now]
          /\ result' = r.result
          /\ config' = r.self
    /\ calls' = calls + 1
    /\ UNCHANGED <<obj, now, templates, heap, instances, button>>

\* config.get_promotion(promotion_id)
GetPromotion ==
    /\ config # None
    /\ \E promotion_id \in AskedIds(config) :
          /\ op' = "get_promotion"
          /\ args' = [self |-> config, promotion_id |-> promotion_id]
          /\ result' = Ok(get_promotion(config, promotion_id))
    /\ UNCHANGED <<obj, now, templates, objects>>

Next ==
    \/ RequireCallbacks
    \/ Construct
    \/ CallModelValidate
    \/ ValidateNested
    \/ BuildErrors
    \/ ValidateAgain
    \/ ConstructMoneyLimits
    \/ NewErrors
    \/ AppendToTable
    \/ Coerce
    \/ ConstructButton
    \/ SetAttribute
    \/ ConstructLinks
    \/ ConstructTemplates
    \/ FromMinimal
    \/ FromMinimalDB
    \/ Tick
    \/ Touch
    \/ ToDynamoDBItem
    \/ ConstructPromotions
    \/ PromotionsFromMinimal
    \/ AddPromotion
    \/ RemovePromotion
    \/ GetPromotion

Spec == Init /\ [][Next]_vars

(* ------------------------------------------------------------------ *)
(* Properties of the callback-contract engine                         *)
(* ------------------------------------------------------------------ *)

\* The buttons of a message's keyboard, whatever their row.
ButtonsOf(msg) ==
    IF msg.reply_markup = None THEN {}
    ELSE UNION {Range(row) : row \in Range(msg.reply_markup.inline_keyboard)}

\* The callback tokens a message exposes: the callback_data of every button that
\* has one (a str), the empty string included.
ExposedTokens(msg) ==
    {b.callback_data.value : b \in {x \in ButtonsOf(msg) : IsStr(x.callback_data)}}

\* The buttons whose action is a callback; the others are URL (link-type) buttons.
CallbackButtons(msg) == {b \in ButtonsOf(msg) : ~Truthy(b.url)}

\* A call require_callbacks(msg, ..., mode, match_mode, case-sensitive) on a
\* message that is present.
CalledWith(mode, match_mode) ==
    /\ op = "require_callbacks"
    /\ args.msg # None
    /\ args.mode = mode
    /\ args.match_mode = match_mode
    /\ args.case_sensitive

\* C1, as claimed: under ALL/EXACT/case-sensitive the message is returned
\* unchanged iff its exposed tokens are a superset of the needles.
C1_AllExactIffSuperset ==
    CalledWith("all", "exact") =>
        (result = Ok(args.msg) <=> Range(args.needles) \subseteq ExposedTokens(args.msg))

\* C1, amended: under ALL/EXACT/case-sensitive the message is returned unchanged
\* iff it exposes at least one token and its exposed tokens are a superset of
\* the needles; in every other case the call fails.
C1_AllExactIffNonEmptySuperset ==
    CalledWith("all", "exact") =>
        /\ result = Ok(args.msg) <=>
              /\ ExposedTokens(args.msg) # {}
              /\ Range(args.needles) \subseteq ExposedTokens(args.msg)
        /\ result # Ok(args.msg) => ~result.ok

\* C1: two needles, both exposed among other tokens, and the message is returned.
C1_Witness ==
    /\ CalledWith("all", "exact")
    /\ Len(args.needles) = 2
    /\ Range(args.needles) \subseteq ExposedTokens(args.msg)
    /\ result = Ok(args.msg)

\* C2: under ANY/EXACT/case-sensitive the call passes iff the exposed tokens and
\* the needles have an element in common, and then returns the message.
C2_AnyExactIffIntersect ==
    CalledWith("any", "exact") =>
        /\ result.ok <=> Range(args.needles) \cap ExposedTokens(args.msg) # {}
        /\ result.ok => result.value = args.msg

\* C2: two needles, one of them exposed and the other not, and the call passes.
C2_Witness ==
    /\ CalledWith("any", "exact")
    /\ Len(args.needles) = 2
    /\ Cardinality(Range(args.needles) \cap ExposedTokens(args.msg)) = 1
    /\ result.ok

\* C5: require_callbacks on an absent message returns None without raising,
\* whatever the needles, combinator, match mode and case sensitivity.
C5_NonePassesThrough ==
    (op = "require_callbacks" /\ args.msg = None) => result = Ok(None)

\* C5: an absent message with needles, under ANY/REGEX/case-insensitive.
C5_Witness ==
    /\ op = "require_callbacks"
    /\ args.msg = None
    /\ Len(args.needles) = 2
    /\ args.mode = "any"
    /\ args.match_mode = "regex"
    /\ ~args.case_sensitive
    /\ result = Ok(None)

\* C6, as claimed: a present message with no callback button (no markup, an empty
\* keyboard, rows without buttons, or URL buttons only) fails with MissingKeyboard;
\* a message with a callback button that does not meet the rule fails with
\* UnsatisfiedCallbackContract.
C6_ErrorKinds ==
    (op = "require_callbacks" /\ args.msg # None) =>
        /\ CallbackButtons(args.msg) = {} => result = Err("MissingKeyboard")
        /\ (CallbackButtons(args.msg) # {} /\ ~result.ok) =>
              result = Err("UnsatisfiedCallbackContract")

\* C6: a keyboard of URL buttons that carry no callback_data, where the call does
\* fail with MissingKeyboard.
C6_Witness ==
    /\ op = "require_callbacks"
    /\ args.msg # None
    /\ ButtonsOf(args.msg) # {}
    /\ CallbackButtons(args.msg) = {}
    /\ result = Err("MissingKeyboard")

\* What each match mode asks of a needle and a set of tokens, by concatenation.
Satisfies(needle, tokens, match_mode) ==
    CASE match_mode = "exact" -> needle \in tokens
      [] match_mode = "substring" ->
            \E t \in tokens : \E i \in 0..Len(t), j \in 0..Len(t) :
                i <= j /\ t = SubSeq(t, 1, i) \o needle \o SubSeq(t, j + 1, Len(t))
      [] match_mode = "prefix" ->
            \E t \in tokens : \E j \in 0..Len(t) :
                t = needle \o SubSeq(t, j + 1, Len(t))
      [] match_mode = "suffix" ->
            \E t \in tokens : \E i \in 0..Len(t) :
                t = SubSeq(t, 1, i) \o needle

\* Whether the call of this state would pass with one needle under match_mode.
PassesWith(needle, match_mode) ==
    require_callbacks(args.msg, <<needle>>, args.mode, match_mode,
                      args.case_sensitive).ok

\* C7: a needle is satisfied as its match mode says (EXACT equality, SUBSTRING
\* occurrence, PREFIX starts-with, SUFFIX ends-with); EXACT satisfaction implies
\* PREFIX, SUFFIX and SUBSTRING satisfaction, and PREFIX or SUFFIX implies
\* SUBSTRING.
C7_MatchModes ==
    (/\ op = "require_callbacks"
     /\ args.msg # None
     /\ ExposedTokens(args.msg) # {}
     /\ args.match_mode \in {"exact", "substring", "prefix", "suffix"}) =>
        LET T == {_normalize(t, args.case_sensitive) : t \in ExposedTokens(args.msg)}
            N == {_normalize(n, args.case_sensitive) : n \in Range(args.needles)}
        IN  /\ result.ok <=>
                  IF args.mode = "all"
                  THEN \A n \in N : Satisfies(n, T, args.match_mode)
                  ELSE \E n \in N : Satisfies(n, T, args.match_mode)
            /\ \A n \in Range(args.needles) :
                  /\ PassesWith(n, "exact") =>
                        /\ PassesWith(n, "prefix")
                        /\ PassesWith(n, "suffix")
                        /\ PassesWith(n, "substring")
                  /\ (PassesWith(n, "prefix") \/ PassesWith(n, "suffix")) =>
                        PassesWith(n, "substring")

\* C7: needle "bet" against the one token "bet_simple" passes under PREFIX and
\* would not under EXACT.
C7_Witness ==
    /\ CalledWith("all", "prefix")
    /\ args.needles = <<"bet">>
    /\ ExposedTokens(args.msg) = {"bet_simple"}
    /\ result.ok
    /\ ~PassesWith("bet", "exact")

(* ------------------------------------------------------------------ *)
(* Properties of the message groups                                   *)
(* ------------------------------------------------------------------ *)

\* The rule table of the groups: field -> the callbacks it must expose.
RuleTable ==
    [OnboardingMessages |-> [member_onboarding |-> {"account_yes", "account_no"}],
     ValidationMessages |->
        [send_otp |-> {"send_otp"}, bad_otp |-> {"send_otp"},
         error_otp |-> {"send_otp"}],
     MenuMessages |-> [main_menu |-> {"bet"}],
     BetsMessages |->
        [select_type_of_bet |->
            {"bet_simple&{FIXTURE_ID}", "add_market_to_combo&{FIXTURE_ID}"}],
     CombosMessages |->
        [combos_recommendation |-> {"combo_select_amount_recommended"},
         delete_combo |-> {"combo_confirm_delete_combo"},
         place_combo_bet |-> {"combo_summary_after_bet"}],
     ConfirmationMessages |-> [confirm_bet |-> {"confirm_bet"}]]

\* A group is built, by its constructor or by model_validate.
GroupCall == op \in {"construct", "model_validate"}

\* The callback tokens the keyboard of a payload value exposes: a bare string is
\* a message of text alone.
TokensOfValue(v) ==
    IF v.type = "MessageItem" THEN ExposedTokens(v)
    ELSE IF v.type = "dict"
         THEN ExposedTokens([reply_markup |-> DictGet(v.items, "reply_markup")])
    ELSE {}

\* The message a bare string stands for.
AsMessage(v) == MessageItem(v, None)

\* The payload holds fields of the group only and, for the constructor, which
\* does not coerce, no bare string.
CleanPayload ==
    /\ DOMAIN args.data \subseteq Fields(args.cls)
    /\ op = "construct" => \A k \in DOMAIN args.data : args.data[k].type # "str"

\* The contract-bearing fields the payload populates.
PopulatedContractFields ==
    {f \in DOMAIN RuleTable[args.cls] \cap DOMAIN args.data : args.data[f] # None}

\* C3: with a contract-bearing field populated, the group is built iff every
\* populated contract-bearing field exposes all the callbacks of its row, by
\* exact case-sensitive equality.
C3_GroupContracts ==
    (GroupCall /\ CleanPayload /\ PopulatedContractFields # {}) =>
        (result.ok <=>
            \A f \in PopulatedContractFields :
                RuleTable[args.cls][f] \subseteq TokensOfValue(args.data[f]))

\* C3: a main menu whose keyboard exposes another token and not "bet" is rejected.
C3_Witness ==
    /\ GroupCall
    /\ args.cls = "MenuMessages"
    /\ CleanPayload
    /\ "main_menu" \in PopulatedContractFields
    /\ TokensOfValue(args.data["main_menu"]) = {"other"}
    /\ result = Err({<<"main_menu", "UnsatisfiedCallbackContract">>})

\* C4, as claimed: a group whose contract-bearing fields are all absent or None
\* is built, whatever its other fields.
C4_PartialGroups ==
    (GroupCall /\ CleanPayload /\ PopulatedContractFields = {}) => result.ok

\* C4: a Validation group with another field set and no contract-bearing field.
C4_Witness ==
    /\ GroupCall
    /\ args.cls = "ValidationMessages"
    /\ CleanPayload
    /\ PopulatedContractFields = {}
    /\ "member_validation" \in DOMAIN args.data
    /\ result.ok

LegacyKeys ==
    [support_message |-> "support", withdrawal_message |-> "withdrawal",
     deposit_message |-> "deposit", show_links_message |-> "show_links"]

\* The payload of a Menu validation has a main menu that meets its contract, or none.
MenuValidation ==
    /\ op = "model_validate"
    /\ args.cls = "MenuMessages"
    /\ \/ PopulatedContractFields = {}
       \/ {"bet"} \subseteq TokensOfValue(args.data["main_menu"])

\* C8, as claimed: validating a Menu payload succeeds; a canonical key gives its
\* field, with or without the legacy key, and a legacy key alone gives the
\* canonical field.
C8_LegacyAliases ==
    MenuValidation =>
        /\ result.ok
        /\ \A l \in DOMAIN LegacyKeys :
              LET c == LegacyKeys[l]
              IN  /\ c \in DOMAIN args.data =>
                        result.value[c] = AsMessage(args.data[c])
                  /\ (l \in DOMAIN args.data /\ c \notin DOMAIN args.data) =>
                        result.value[c] = AsMessage(args.data[l])

\* C8: only legacy keys, and each canonical field carries the legacy value.
C8_Witness ==
    /\ MenuValidation
    /\ DOMAIN LegacyKeys \subseteq DOMAIN args.data
    /\ \A l \in DOMAIN LegacyKeys : LegacyKeys[l] \notin DOMAIN args.data
    /\ result.ok
    /\ \A l \in DOMAIN LegacyKeys :
          result.value[LegacyKeys[l]] = AsMessage(args.data[l])

MisspeltKeys ==
    [errro_to_place_bet |-> "error_to_place_bet",
     sumary_after_bet |-> "summary_after_bet"]

\* C9, as claimed: in a validated Combos group a misspelt key alone gives the
\* corrected field, and a value given under the correct key is the value of the
\* field, never that of the misspelt key.
C9_TypoCorrection ==
    (op = "model_validate" /\ args.cls = "CombosMessages" /\ result.ok) =>
        \A m \in DOMAIN MisspeltKeys :
            LET c == MisspeltKeys[m]
            IN  /\ c \in DOMAIN args.data =>
                      result.value[c] = AsMessage(args.data[c])
                /\ (m \in DOMAIN args.data /\ c \notin DOMAIN args.data) =>
                      result.value[c] = AsMessage(args.data[m])

\* C9: both misspelt keys alone, and both corrected fields carry their values.
C9_Witness ==
    /\ op = "model_validate"
    /\ args.cls = "CombosMessages"
    /\ DOMAIN MisspeltKeys \subseteq DOMAIN args.data
    /\ \A m \in DOMAIN MisspeltKeys : MisspeltKeys[m] \notin DOMAIN args.data
    /\ result.ok
    /\ \A m \in DOMAIN MisspeltKeys :
          result.value[MisspeltKeys[m]] = AsMessage(args.data[m])

\* C10, as claimed: every Combos group that is built has combos_recommendation
\* and combos_confirm_add_recommended populated, and a combos_recommendation the
\* payload did not give exposes combo_select_amount_recommended.
C10_CombosDefaults ==
    (GroupCall /\ args.cls = "CombosMessages" /\ result.ok) =>
        /\ result.value["combos_recommendation"] # None
        /\ result.value["combos_confirm_add_recommended"] # None
        /\ DictGet(args.data, "combos_recommendation") = None =>
              "combo_select_amount_recommended"
                  \in ExposedTokens(result.value["combos_recommendation"])

\* C10: model_validate of a payload without the two fields populates both.
C10_Witness ==
    /\ op = "model_validate"
    /\ args.cls = "CombosMessages"
    /\ "combos_recommendation" \notin DOMAIN args.data
    /\ DictGet(args.data, "combos_confirm_add_recommended") = None
    /\ result.ok
    /\ "combo_select_amount_recommended"
          \in ExposedTokens(result.value["combos_recommendation"])
    /\ result.value["combos_confirm_add_recommended"] # None

(* ------------------------------------------------------------------ *)
(* Properties of coercion and of buttons                              *)
(* ------------------------------------------------------------------ *)

\* A group is built on one of its construction paths.
BuildCall ==
    op \in {"construct", "model_validate", "nested", "construct_errors",
            "model_validate_errors"}

\* The Message-typed fields for which the payload gives a bare string.
StringFields == {f \in DOMAIN args.data \cap Fields(args.cls) : IsStr(args.data[f])}

\* C11, as claimed: on every construction path a bare string given for a
\* Message-typed field is accepted (it is no type error), and in the group that
\* is built the field is the Message whose text is that string.
C11_CoercionEveryPath ==
    BuildCall =>
        \A f \in StringFields :
            /\ ~result.ok => <<f, "model_type">> \notin result.error
            /\ (result.ok /\ DOMAIN args.data \cap DOMAIN MisspeltKeys = {}) =>
                  result.value[f] = AsMessage(args.data[f])

\* C11: model_validate of an Onboarding payload whose greeting is a bare string.
C11_Witness ==
    /\ op = "model_validate"
    /\ args.cls = "OnboardingMessages"
    /\ "greeting_message" \in StringFields
    /\ result.ok
    /\ result.value["greeting_message"] = AsMessage(args.data["greeting_message"])

\* C12: _coerce maps a str s to the mapping {text: s} and None to None, returns
\* every other value unchanged, and applying it to its result changes nothing.
C12_CoerceIdempotent ==
    op = "_coerce" =>
        /\ result.value = IF IsStr(args.v) THEN Dict([text |-> args.v]) ELSE args.v
        /\ _coerce(result.value) = result.value

\* C12: a str has been coerced to a mapping, which a second coercion keeps.
C12_Witness ==
    /\ op = "_coerce"
    /\ args.v = Str("hello")
    /\ result.value = Dict([text |-> Str("hello")])
    /\ _coerce(result.value) = result.value

\* The action fields of a button that are not null.
NonNullActions(btn) == {k \in {"callback_data", "url"} : btn[k] # None}

\* C13, as claimed: a button is constructed only if exactly one of callback_data
\* and url is not null, a callback_data that is set has at most 64 characters and
\* the label is not empty; construction with both or with neither fails.
C13_ButtonExclusivity ==
    op = "button" =>
        /\ result.ok =>
              /\ Cardinality(NonNullActions(args.btn)) = 1
              /\ args.btn.callback_data # None =>
                    Len(args.btn.callback_data.value) <= MaxCallbackLen
              /\ Len(args.btn.text) >= 1
        /\ Cardinality(NonNullActions(args.btn)) # 1 => ~result.ok

\* C13: a callback token of exactly 64 characters and no url is accepted.
C13_Witness ==
    /\ op = "button"
    /\ args.btn.url = None
    /\ args.btn.callback_data # None
    /\ Len(args.btn.callback_data.value) = MaxCallbackLen
    /\ result = Ok(args.btn)

(* ------------------------------------------------------------------ *)
(* Properties of the links collection                                 *)
(* ------------------------------------------------------------------ *)

\* A collection of links, every entry a valid Link, has been validated.
LinksCall ==
    /\ op = "links"
    /\ \A i \in 1..Len(args.links) : LinkItem(args.links[i]).ok

\* The titles of the collection, trimmed, in lower case.
TitlesLower == [i \in 1..Len(args.links) |-> Lower(Strip(args.links[i].title))]

\* Two entries of the collection have the same title, case aside: there are
\* fewer titles than entries.
DuplicateTitles == Cardinality(Range(TitlesLower)) < Len(args.links)

\* The collection with other content in every entry, the titles kept.
OtherContent ==
    [i \in 1..Len(args.links) |->
        [title |-> args.links[i].title, message_text |-> "other text",
         button_label |-> "Other", button_url |-> "https://other.example.com"]]

\* The collection without its i-th entry.
Without(i) ==
    [k \in 1..(Len(args.links) - 1) |->
        IF k < i THEN args.links[k] ELSE args.links[k + 1]]

\* The collection with its i-th entry under another title.
Renamed(i) ==
    [k \in 1..Len(args.links) |->
        IF k = i THEN [args.links[k] EXCEPT !.title = "Renamed"] ELSE args.links[k]]

\* C14: a collection of links is accepted iff it has at most 100 entries, its
\* titles differ case aside and include the six required titles; the outcome is
\* the same with any other content under the same titles; a rejection for a
\* missing title names exactly the missing titles in alphabetical order; and
\* from an accepted collection, deleting or renaming a required link is rejected.
C14_LinksRequiredSet ==
    LinksCall =>
        /\ result.ok <=>
              /\ Len(args.links) <= MaxLinks
              /\ ~DuplicateTitles
              /\ REQUIRED_LINK_TITLES \subseteq Range(TitlesLower)
        /\ LinksMessages(OtherContent).ok = result.ok
        /\ (~result.ok /\ result.error = "MissingRequiredLinks") =>
              /\ Range(result.missing) = REQUIRED_LINK_TITLES \ Range(TitlesLower)
              /\ Len(result.missing) = Cardinality(Range(result.missing))
              /\ \A i, j \in 1..Len(result.missing) :
                    i < j => StrLess(result.missing[i], result.missing[j])
        /\ result.ok =>
              \A i \in 1..Len(args.links) :
                  TitlesLower[i] \in REQUIRED_LINK_TITLES =>
                      /\ ~LinksMessages(Without(i)).ok
                      /\ ~LinksMessages(Renamed(i)).ok

\* C14: an accepted collection of exactly 100 links in which required links
\* have been edited and others kept.
C14_Witness ==
    /\ LinksCall
    /\ Len(args.links) = MaxLinks
    /\ \E i \in 1..Len(args.links) : args.links[i] = Edited(DEFAULT_LINKS[1])
    /\ \E i \in 1..Len(args.links) : args.links[i] = DEFAULT_LINKS[2]
    /\ result.ok

\* C15, as claimed: more than 100 links are rejected with TooManyLinks, exactly
\* 100 are not rejected by the cap, and a collection with two titles equal case
\* aside is rejected with DuplicateLinkTitle, whatever its size.
C15_CapAndDuplicates ==
    LinksCall =>
        /\ Len(args.links) > MaxLinks => result = Err("TooManyLinks")
        /\ Len(args.links) = MaxLinks => result # Err("TooManyLinks")
        /\ DuplicateTitles => result = Err("DuplicateLinkTitle")

\* C15, amended: more than 100 links are rejected with TooManyLinks, whatever
\* their titles; exactly 100 are not rejected by the cap; at most 100 links with
\* two titles equal case aside are rejected with DuplicateLinkTitle; the two
\* checks pass together iff the size is at most 100 and no title is repeated.
C15_CapThenDuplicates ==
    LinksCall =>
        /\ Len(args.links) > MaxLinks => result = Err("TooManyLinks")
        /\ Len(args.links) = MaxLinks => result # Err("TooManyLinks")
        /\ (DuplicateTitles /\ Len(args.links) <= MaxLinks) =>
              result = Err("DuplicateLinkTitle")
        /\ (~result.ok /\ result.error \in {"TooManyLinks", "DuplicateLinkTitle"})
              <=> (Len(args.links) > MaxLinks \/ DuplicateTitles)

\* C15: 101 links with a repeated title are rejected for their number.
C15_Witness ==
    /\ LinksCall
    /\ Len(args.links) = MaxLinks + 1
    /\ DuplicateTitles
    /\ result = Err("TooManyLinks")

(* ------------------------------------------------------------------ *)
(* Properties of the aggregate                                        *)
(* ------------------------------------------------------------------ *)

\* The group fields of the aggregate whose class has a rule table.
ContractGroups == {g \in DOMAIN TemplateFields : TemplateFields[g] \in DOMAIN RuleTable}

\* MessageTemplates.from_minimal() has been called.
DefaultInstanceCall == op = "from_minimal" /\ args.cls = "MessageTemplates"

\* C16: from_minimal succeeds; every message group is populated; every
\* contract-bearing field holds a message that exposes the callbacks of its row
\* and passes the validators of its group; the links are the six default links.
C16_DefaultInstance ==
    DefaultInstanceCall =>
        /\ result.ok
        /\ \A g \in DOMAIN TemplateFields : result.value[g] # None
        /\ \A g \in ContractGroups :
              LET cls == TemplateFields[g]
              IN  /\ ModelValidator(cls, result.value[g]) = Ok(result.value[g])
                  /\ \A f \in DOMAIN RuleTable[cls] :
                        LET m == result.value[g][f]
                        IN  /\ m # None
                            /\ RuleTable[cls][f] \subseteq ExposedTokens(m)
                            /\ FieldValidator(cls, f, m) = Ok(m)
        /\ Len(result.value["links"]) = 6
        /\ \A i \in 1..6 : result.value["links"][i] = DEFAULT_LINKS[i]
        /\ {Lower(result.value["links"][i].title) : i \in 1..6} = REQUIRED_LINK_TITLES

\* C16: the default instance, whose onboarding message exposes account_yes and
\* account_no, is what the caller holds.
C16_Witness ==
    /\ DefaultInstanceCall
    /\ result.ok
    /\ templates = result.value
    /\ ExposedTokens(templates["onboarding"]["member_onboarding"])
          = {"account_yes", "account_no"}

RECURSIVE HasNullKey(_)
\* Some mapping of x, at any depth and inside lists, has a key whose value is None.
HasNullKey(x) ==
    IF x.type = "dict"
    THEN \E k \in DOMAIN x.items : x.items[k] = None \/ HasNullKey(x.items[k])
    ELSE IF x.type = "list" THEN \E i \in 1..Len(x.items) : HasNullKey(x.items[i])
    ELSE FALSE

RECURSIVE HasDatetime(_)
\* x holds a datetime value, at any depth.
HasDatetime(x) ==
    IF x.type = "datetime" THEN TRUE
    ELSE IF x.type = "dict" THEN \E k \in DOMAIN x.items : HasDatetime(x.items[k])
    ELSE IF x.type = "list" THEN \E i \in 1..Len(x.items) : HasDatetime(x.items[i])
    ELSE FALSE

RECURSIVE SameKeys(_, _)
\* Document a has the keys and entries of dump b at every level, with the values
\* of b, None included, but for the timestamps.
SameKeys(a, b) ==
    IF b.type = "datetime" THEN a.type = "str"
    ELSE IF a.type # b.type THEN FALSE
    ELSE IF b.type = "dict"
         THEN /\ DOMAIN a.items = DOMAIN b.items
              /\ \A k \in DOMAIN b.items : SameKeys(a.items[k], b.items[k])
    ELSE IF b.type = "list"
         THEN /\ Len(a.items) = Len(b.items)
              /\ \A i \in 1..Len(b.items) : SameKeys(a.items[i], b.items[i])
    ELSE a = b

\* v is a str of the form YYYY-MM-DDTHH:MM:SS+00:00.
IsIso8601(v) ==
    /\ IsStr(v)
    /\ Len(v.value) = 25
    /\ SubSeq(v.value, 5, 5) = "-"
    /\ SubSeq(v.value, 8, 8) = "-"
    /\ SubSeq(v.value, 11, 11) = "T"
    /\ SubSeq(v.value, 14, 14) = ":"
    /\ SubSeq(v.value, 17, 17) = ":"
    /\ EndsWith(v.value, "+00:00")

\* C17: the document of to_dynamodb_item holds no datetime, its timestamps are
\* ISO-8601 strings; with drop_none no mapping of it, at any depth and inside
\* lists, has a key whose value is None; without drop_none it has the keys of
\* the dump at every level, None values kept; the receiver is as it was.
C17_ToDocument ==
    op = "to_dynamodb_item" =>
        /\ ~HasDatetime(result.value)
        /\ IsIso8601(result.value.items["created_at"])
        /\ IsIso8601(result.value.items["updated_at"])
        /\ args.drop_none => ~HasNullKey(result.value)
        /\ ~args.drop_none => SameKeys(result.value, model_dump(args.self))
        /\ templates = args.self

\* C17: the default instance, whose dump has None values inside the buttons of
\* its keyboards, gives a document without any.
C17_Witness ==
    /\ op = "to_dynamodb_item"
    /\ args.drop_none
    /\ args.self["onboarding"] # None
    /\ \E k \in DOMAIN model_dump(args.self).items :
          /\ model_dump(args.self).items[k] # None
          /\ HasNullKey(model_dump(args.self).items[k])
    /\ ~HasNullKey(result.value)

\* touch() left every field but updated_at as it was, and raised nothing.
TouchFrame ==
    /\ DOMAIN templates = DOMAIN args.self
    /\ \A k \in DOMAIN templates \ {"updated_at"} : templates[k] = args.self[k]
    /\ result = Ok(None)

PersistedCall == op = "construct_templates" /\ args.cls = "MessageTemplatesDB"

\* A key of the persisted variant is set: given, not None and not empty.
KeySet(k) == k \in DOMAIN args.data /\ Truthy(args.data[k])

\* The data without the keys is valid for the aggregate.
RestValid ==
    Templates("MessageTemplates",
              [k \in DOMAIN args.data \ {"PK", "SK"} |-> args.data[k]], args.now).ok

\* C19: MessageTemplatesDB is not constructed unless both keys are set; with the
\* rest of the data valid, it fails with the missing-key error when a key is
\* missing, None or empty, and is constructed with the two keys when both are set.
C19_PersistenceKeys ==
    PersistedCall =>
        /\ ~(KeySet("PK") /\ KeySet("SK")) => ~result.ok
        /\ RestValid =>
              IF KeySet("PK") /\ KeySet("SK")
              THEN /\ result.ok
                   /\ result.value["PK"] = args.data["PK"]
                   /\ result.value["SK"] = args.data["SK"]
              ELSE result = Err("MissingPersistenceKey")

\* C19: the partition key alone.
C19_Witness ==
    /\ PersistedCall
    /\ KeySet("PK")
    /\ "SK" \notin DOMAIN args.data
    /\ result = Err("MissingPersistenceKey")

\* MessageTemplatesDB.from_minimal(company_id) has been called.
PersistedDefaultCall == op = "from_minimal" /\ args.cls = "MessageTemplatesDB"

\* C20: MessageTemplatesDB.from_minimal(company_id) succeeds, with the keys
\* "company#" + company_id and "message_templates", and with the message
\* groups, links and timestamps of the default instance it dumped.
C20_PersistedDefault ==
    PersistedDefaultCall =>
        LET base == from_minimal(args.now)
        IN  /\ base.ok
            /\ result.ok
            /\ result.value["PK"] = Str("company#" \o args.company_id)
            /\ result.value["SK"] = Str("message_templates")
            /\ DOMAIN result.value = DOMAIN base.value \cup {"PK", "SK"}
            /\ \A k \in DOMAIN base.value : result.value[k] = base.value[k]

\* C20: the record of test_company, with the keyboard of the default main menu.
C20_Witness ==
    /\ PersistedDefaultCall
    /\ args.company_id = "test_company"
    /\ result.ok
    /\ result.value["PK"] = Str("company#test_company")
    /\ "bet" \in ExposedTokens(result.value["menu"]["main_menu"])

(* ------------------------------------------------------------------ *)
(* C21: validation and the caller's mapping                           *)
(* ------------------------------------------------------------------ *)

\* A payload mapping was validated by a group: by its constructor, by its
\* model_validate, or as a nested mapping of the aggregate.
ValidationCall ==
    op \in {"construct", "model_validate", "nested", "construct_errors",
            "model_validate_errors"}

\* C21, as claimed: validation leaves the caller's mapping as it was, with the
\* same keys and the same values, whether it succeeds or fails.
C21_SideEffectFree ==
    ValidationCall => obj = args.data

\* C21: model_validate of a Menu payload that holds support_message alone
\* succeeds and leaves the caller's mapping without it, with support instead;
\* the constructor leaves its mapping alone.
C21_Witness ==
    /\ op = "model_validate"
    /\ args.cls = "MenuMessages"
    /\ "support_message" \in DOMAIN args.data
    /\ "support" \notin DOMAIN args.data
    /\ result.ok
    /\ "support_message" \notin DOMAIN obj
    /\ obj["support"] = args.data["support_message"]

(* ------------------------------------------------------------------ *)
(* C27: validating the same mapping again                             *)
(* ------------------------------------------------------------------ *)

\* C27, as claimed: validating the same mapping a second time with the same
\* group gives the outcome of the first time: the same error, or a group with
\* equal field values.
C27_RepeatedValidation ==
    op = "validate_again" => result = args.first

\* C27: an Errors payload that gives its own table is validated twice; the
\* first group holds that table and the second holds the built-in table.
C27_Witness ==
    /\ op = "validate_again"
    /\ args.cls = "ErrorMessages"
    /\ "general_errors" \in DOMAIN args.data
    /\ args.data["general_errors"] = GivenGeneralErrors
    /\ args.first.ok
    /\ args.first.value["general_errors"] = GivenGeneralErrors
    /\ "general_errors" \notin DOMAIN args.left
    /\ result.ok
    /\ result.value["general_errors"] = DEFAULT_GENERAL_ERRORS

(* ------------------------------------------------------------------ *)
(* C22: the tables of general errors                                  *)
(* ------------------------------------------------------------------ *)

\* The table instance i sees.
TableOf(i, tables) == tables[instances[i].general_errors]

\* C22, as claimed: a text appended to the table of one instance changes
\* neither the built-in table nor the table of any other instance, and an
\* instance constructed without a table sees the built-in defaults.
C22_IndependentTables ==
    /\ op = "append_text" =>
          /\ heap[BuiltIn] = args.before[BuiltIn]
          /\ \A j \in (1..Len(instances)) \ {args.i} :
                TableOf(j, heap) = TableOf(j, args.before)
    /\ (op = "new_errors" /\ args.how = "none") =>
          TableOf(Len(instances), heap) = DEFAULT_GENERAL_ERRORS

\* C22: two instances were constructed without a table; a text appended to the
\* table of the first is in the table of the second and in the module's table.
C22_Witness ==
    /\ op = "append_text"
    /\ args.i = 1
    /\ Len(instances) = 2
    /\ instances[2].general_errors = general_errors_default
    /\ TableOf(2, args.before) = DEFAULT_GENERAL_ERRORS
    /\ TableOf(2, heap) = AppendText(DEFAULT_GENERAL_ERRORS, "en", "appended")
    /\ heap[BuiltIn] # DEFAULT_GENERAL_ERRORS

(* ------------------------------------------------------------------ *)
(* C23: a button after its construction                               *)
(* ------------------------------------------------------------------ *)

\* C23, as claimed: whatever is done to a button after its construction, it
\* has exactly one of callback token and url set, and a callback token that is
\* set has at most 64 characters: the rule of construction keeps holding.
C23_ButtonStaysValid ==
    button # None => _only_one_action(button) = "ok"

\* C23: a button constructed with a callback token and no url is assigned a
\* url, and then has both.
C23_Witness ==
    /\ op = "setattr"
    /\ args.name = "url"
    /\ _only_one_action(args.self) = "ok"
    /\ args.self.url = None
    /\ Truthy(args.value)
    /\ Truthy(button.callback_data)
    /\ button.url = args.value
    /\ _only_one_action(button) = "both"

(* ------------------------------------------------------------------ *)
(* C24: MoneyLimits                                                   *)
(* ------------------------------------------------------------------ *)

\* What is known of an amount that was given: its kind and its hundredths.
Known(given) == CHOOSE a \in Amounts : a.given = given

\* The hundredths of a finite Decimal with at most two decimal places.
Hundredths(d) == Rescaled(d, 2)

\* C24: MoneyLimits is accepted exactly when both amounts write numbers,
\* the minimum is at least 0, the maximum is more than 0 and more than the
\* minimum; the fields of an accepted model are the numbers that were written;
\* an amount that writes nothing that converts is reported as an invalid
\* amount.
C24_MoneyLimits ==
    op = "money_limits" =>
        LET min == Known(args["min_bet_amount"])
            max == Known(args["max_bet_amount"])
        IN  /\ result.ok <=>
                  /\ min.kind = "number" /\ max.kind = "number"
                  /\ min.hundredths >= 0
                  /\ max.hundredths > 0
                  /\ max.hundredths > min.hundredths
            /\ result.ok =>
                  /\ Hundredths(result.value["min_bet_amount"]) = min.hundredths
                  /\ Hundredths(result.value["max_bet_amount"]) = max.hundredths
            /\ min.kind = "unconvertible" =>
                  <<"min_bet_amount", "InvalidAmount">> \in result.error
            /\ max.kind = "unconvertible" =>
                  <<"max_bet_amount", "InvalidAmount">> \in result.error

\* C24: a minimum given as the string "1.50" and a maximum given as the float
\* 100.5 are accepted as 1.50 and 100.5.
C24_Witness ==
    /\ op = "money_limits"
    /\ args["min_bet_amount"] = Str("1.50")
    /\ args["max_bet_amount"] = Float(1005)
    /\ result = Ok([min_bet_amount |-> Decimal(150, 2),
                    max_bet_amount |-> Decimal(1005, 1)])

(* ------------------------------------------------------------------ *)
(* C25: case sensitivity of require_callbacks                         *)
(* ------------------------------------------------------------------ *)

\* The message with every callback token in lower case.
Lowered(msg) ==
    IF msg.reply_markup = None THEN msg
    ELSE LET kb == msg.reply_markup.inline_keyboard
         IN  [msg EXCEPT !.reply_markup.inline_keyboard =
                 [r \in 1..Len(kb) |->
                     [c \in 1..Len(kb[r]) |->
                         IF IsStr(kb[r][c].callback_data)
                         THEN [kb[r][c] EXCEPT
                                  !.callback_data = Str(Lower(@.value))]
                         ELSE kb[r][c]]]]

LoweredNeedles == [i \in 1..Len(args.needles) |-> Lower(args.needles[i])]

\* C25: with case_sensitive=False the call passes exactly when the
\* case-sensitive call on the lower-cased tokens and lower-cased needles
\* passes, for EXACT, SUBSTRING, PREFIX and SUFFIX; with case_sensitive=True
\* and EXACT, a needle that no token equals letter for letter is not satisfied,
\* whatever tokens equal it up to letter case.
C25_CaseInsensitive ==
    (/\ op = "require_callbacks"
     /\ args.msg # None
     /\ args.match_mode \in {"exact", "substring", "prefix", "suffix"}) =>
        /\ ~args.case_sensitive =>
              (result.ok <=>
                  require_callbacks(Lowered(args.msg), LoweredNeedles, args.mode,
                                    args.match_mode, TRUE).ok)
        /\ (args.case_sensitive /\ args.match_mode = "exact") =>
              \A i \in 1..Len(args.needles) :
                  args.needles[i] \notin ExposedTokens(args.msg) =>
                      ~PassesWith(args.needles[i], "exact")

\* C25: the needle "BET" against the one token "Bet" passes under EXACT with
\* case_sensitive=False, and would not pass with case_sensitive=True.
C25_Witness ==
    /\ op = "require_callbacks"
    /\ args.msg # None
    /\ ExposedTokens(args.msg) = {"Bet"}
    /\ args.needles = <<"BET">>
    /\ args.match_mode = "exact"
    /\ ~args.case_sensitive
    /\ result = Ok(args.msg)
    /\ ~require_callbacks(args.msg, args.needles, args.mode, "exact", TRUE).ok

(* ------------------------------------------------------------------ *)
(* C26: the field-level and the group-level contract check            *)
(* ------------------------------------------------------------------ *)

\* A group is constructed from a payload of its fields whose values are all
\* messages, mappings that validate as messages, or None.
ParsedPayload ==
    /\ op = "construct"
    /\ CleanPayload
    /\ \A f \in DOMAIN args.data : ValidateMessageItem(args.data[f]).ok

\* The fields of the group after the validation of the payload's values and
\* before any contract check.
ParsedSelf ==
    [f \in Fields(args.cls) |->
        IF f \in DOMAIN args.data THEN ValidateMessageItem(args.data[f]).value
        ELSE FieldDefault(args.cls, f)]

\* The field-level check of a message for a contract-bearing field, and the
\* group-level test of the same message.
FieldLevelAccepts(f, msg) == FieldValidator(args.cls, f, msg).ok

GroupLevelAccepts(f, msg) == RuleTable[args.cls][f] \ extract(msg) = {}

\* The payload would be accepted by the field-level checks alone, and by the
\* group-level check alone.
FieldChecksAccept ==
    \A f \in DOMAIN RuleTable[args.cls] \cap DOMAIN args.data :
        FieldLevelAccepts(f, ParsedSelf[f])

GroupCheckAccepts == ModelValidator(args.cls, ParsedSelf).ok

\* C26, for a populated value: the field-level check accepts the message of a
\* populated contract-bearing field exactly when the group-level test does;
\* and so for every message require_callbacks is applied to (URL buttons,
\* empty keyboards and empty callback tokens among them) and every rule.
C26_SameRulePerValue ==
    /\ ParsedPayload =>
          \A f \in PopulatedContractFields :
              FieldLevelAccepts(f, ParsedSelf[f])
                  <=> GroupLevelAccepts(f, ParsedSelf[f])
    /\ (op = "require_callbacks" /\ args.msg # None) =>
          \A cls \in DOMAIN RuleTable : \A f \in DOMAIN RuleTable[cls] :
              FieldValidator(cls, f, args.msg).ok
                  <=> RuleTable[cls][f] \ extract(args.msg) = {}

\* C26, as claimed: the two checks use the same rule, for every populated value
\* of a contract-bearing field, so that either check alone accepts the payloads
\* the other accepts.
C26_SameRule ==
    /\ C26_SameRulePerValue
    /\ ParsedPayload => (FieldChecksAccept <=> GroupCheckAccepts)

\* C26: an Onboarding payload with a greeting and no member_onboarding passes
\* the field-level checks and fails the group-level check.
C26_Witness ==
    /\ ParsedPayload
    /\ args.cls = "OnboardingMessages"
    /\ "greeting_message" \in DOMAIN args.data
    /\ "member_onboarding" \notin DOMAIN args.data
    /\ FieldChecksAccept
    /\ ~GroupCheckAccepts
    /\ result = MissingCallbacks("member_onboarding")

(* ------------------------------------------------------------------ *)
(* C28: the bounds of the promotions list after mutation              *)
(* ------------------------------------------------------------------ *)

\* C28: in every state reached from a validly constructed PromotionsConfig by
\* add_promotion and remove_promotion calls, the promotions list has at most
\* 100 entries and no two entries share a promotion_id.
C28_BoundsKept ==
    config # None =>
        /\ Len(config.promotions) <= MaxPromotions
        /\ \A i, j \in 1..Len(config.promotions) :
              config.promotions[i].promotion_id = config.promotions[j].promotion_id
                  => i = j

\* add_promotion has returned a promotion to a configuration that held the
\* maximum, or one whose identifier the list already carried.
C28_Witness ==
    /\ op = "add_promotion"
    /\ result.ok
    /\ \/ Len(args.self.promotions) = MaxPromotions
       \/ result.value.promotion_id \in ids(args.self.promotions)

(* ------------------------------------------------------------------ *)
(* C29: remove_promotion                                              *)
(* ------------------------------------------------------------------ *)

\* The list without the first of its promotions that carry the identifier.
WithoutFirst(list, promotion_id) ==
    LET hits == {i \in 1..Len(list) : list[i].promotion_id = promotion_id}
        first == CHOOSE i \in hits : \A j \in hits : i <= j
    IN  [k \in 1..(Len(list) - 1) |-> IF k < first THEN list[k] ELSE list[k + 1]]

\* How often the identifier occurs in the list.
Occurrences(list, promotion_id) ==
    Cardinality({i \in 1..Len(list) : list[i].promotion_id = promotion_id})

\* C29: remove_promotion(id) returns True exactly when a promotion of the list
\* carries the id; it then removes the first such entry and no other, keeps the
\* others in their order and sets updated_at to the clock reading; otherwise it
\* returns False and leaves the configuration as it was.  After removing an id
\* that occurred once, get_promotion(id) returns None.
C29_RemovePromotion ==
    op = "remove_promotion" =>
        LET before == args.self
            n == Occurrences(before.promotions, args.promotion_id)
        IN  /\ result = Ok(n > 0)
            /\ n > 0 =>
                  /\ config.promotions =
                        WithoutFirst(before.promotions, args.promotion_id)
                  /\ config.updated_at = args.now
                  /\ config.created_at = before.created_at
            /\ n = 0 => config = before
            /\ n = 1 => get_promotion(config, args.promotion_id) = None

\* remove_promotion has removed the first of two promotions that carry the id,
\* from a configuration last updated at an earlier clock reading.
C29_Witness ==
    /\ op = "remove_promotion"
    /\ result = Ok(TRUE)
    /\ Occurrences(args.self.promotions, args.promotion_id) = 2
    /\ Len(config.promotions) = Len(args.self.promotions) - 1
    /\ args.self.updated_at < config.updated_at

(* ------------------------------------------------------------------ *)
(* C30: add_promotion                                                 *)
(* ------------------------------------------------------------------ *)

\* The keywords of an argument record, none given being no keywords.
GivenKeywords(a) == IF a.keywords = None THEN <<>> ELSE a.keywords.items

\* Valid arguments of add_promotion: a title of 1 to 200 characters that is
\* neither blank nor purely numeric, an end_date after the start_date, details
\* of at most 5000 characters that are not blank, at most 20 keywords, none
\* longer than 50 characters once stripped.
ValidArguments(a) ==
    /\ Len(a.title) \in 1..MaxPromotionTitleLen
    /\ Strip(a.title) # ""
    /\ \E i \in 1..Len(Strip(a.title)) :
          ~IsDigit(SubSeq(Strip(a.title), i, i))
    /\ a.start_date < a.end_date
    /\ Len(a.details) <= MaxDetailsLen
    /\ Strip(a.details) # ""
    /\ Len(GivenKeywords(a)) <= MaxKeywords
    /\ \A i \in 1..Len(GivenKeywords(a)) :
          Len(Strip(GivenKeywords(a)[i])) <= MaxKeywordLen

\* C30: add_promotion with valid arguments appends one promotion at the end of
\* the list, returns that promotion, leaves the earlier entries as they were
\* and sets updated_at to the clock reading; with invalid arguments it raises
\* and leaves the list and updated_at as they were.
C30_AddPromotion ==
    op = "add_promotion" =>
        LET before == args.self
        IN  /\ result.ok <=> ValidArguments(args.a)
            /\ result.ok =>
                  /\ Len(config.promotions) = Len(before.promotions) + 1
                  /\ config.promotions[Len(config.promotions)] = result.value
                  /\ SubSeq(config.promotions, 1, Len(before.promotions))
                        = before.promotions
                  /\ config.updated_at = args.now
                  /\ config.created_at = before.created_at
                  /\ result.value.title = Strip(args.a.title)
                  /\ result.value.start_date = args.a.start_date
                  /\ result.value.end_date = args.a.end_date
                  /\ result.value.details = args.a.details
                  /\ Truthy(args.a.promotion_id) =>
                        result.value.promotion_id = args.a.promotion_id.value
            /\ ~result.ok => config = before

\* add_promotion has appended a promotion to a list that held some, in a
\* configuration last updated at an earlier clock reading.
C30_Witness ==
    /\ op = "add_promotion"
    /\ result.ok
    /\ Len(args.self.promotions) > 0
    /\ config.promotions = Append(args.self.promotions, result.value)
    /\ args.self.updated_at < config.updated_at

\* add_promotion has raised for a configuration last updated at an earlier
\* clock reading.
C30_WitnessRaised ==
    /\ op = "add_promotion"
    /\ ~result.ok
    /\ args.self.updated_at < args.now

====
